---- MODULE Spec2Model ----
(***************************************************************************)
(* Run-loop controller of the agent kernel (services/kernel.rs).           *)
(*                                                                         *)
(* KernelManager owns a mutex-guarded RunState, two atomic flags (paused,  *)
(* running) and an event bus with an atomic sequence counter.  Control     *)
(* operations (start, pause, resume, stop, continue_run, user_input) are   *)
(* synchronous commands served one at a time (lib.rs), each one action;    *)
(* run_loop is a background task whose steps, one per access to the shared *)
(* state, interleave with the control operations.                          *)
(***************************************************************************)
EXTENDS Integers, Sequences, FiniteSets, TLC

VARIABLES
    running,    \* KernelManager.running : AtomicBool
    paused,     \* KernelManager.paused  : AtomicBool
    state,      \* KernelManager.state   : Mutex<RunState>
    event,      \* the last event emitted: its type, or the reason of a StateChanged
    seq,        \* EventBus.seq          : AtomicU64
    shown,      \* the agent_state of the last StateChanged event and save
    ret,        \* what the last control operation returned
    from,       \* the agent_state the last control call found
    inputs,     \* control calls issued and decision calls answered so far
    loops,      \* position and locals of each spawned run_loop task: the
                \* batch, the index of the action at hand, and the
                \* observation just returned by the dispatcher
    bus_run_id, \* EventBus.run_id         : Mutex<String>
    log,        \* the events appended to the run logs, in the order appended
    emitters,   \* the tasks that call EventBus::emit, each with its position
                \* and the run id and sequence number it has read
    profile,    \* the active LlmProfile: its tool_toggles
    response,   \* the JSON value of the model's response to a decision call
    decision,   \* decide_actions_with_llm: how far it is, the actions parsed
                \* from the response and those it keeps, or its error
    pty,        \* one TerminalManager exec call: the bytes the shell will
                \* produce, those read so far, and the result of the call
    ws,         \* one path resolution of WorkspaceState: the root, the
                \* input, and the result
    cmd,        \* one command action given to Runtime::execute: its kind, its
                \* text, and what became of it
    store,      \* the whole RunState under its operations: start, the updates of
                \* the run loop and of user_input, and the observations applied
    judge,      \* one evaluation of the judge: the rules, the outcome of each,
                \* the context and the result
    mux,        \* one multiplexed session: the sessions lock, the bytes written
                \* to its pty, and the position of each caller
    mtx,        \* the mutex of the run state: who holds it, the run state, and
                \* the positions of the run loop and of a control call
    tlog,       \* one exec on a session: the transcript log, what its drain
                \* thread has still to append, and the position of the call
    reg         \* the sessions of the TerminalManager: the session map, the order
                \* list, and the last call with what it returned

\* The state of the event bus when its calls are followed step by step.
bus_vars == <<bus_run_id, log, emitters>>

\* What the control calls and the run loop of the kernel leave alone.
\* The decision call when it is followed step by step.
llm_vars == <<profile, response, decision>>

\* The tools when one call of theirs is followed step by step.
tool_vars == <<pty, ws, cmd, store, judge, mux, mtx, tlog, reg>>

side_vars == <<bus_vars, llm_vars, tool_vars>>

vars == <<running, paused, state, seq, event, shown, ret, from, inputs, loops,
          side_vars>>

----------------------------------------------------------------------------
\* Bounds of the model.
MaxInputs == 4      \* control calls issued plus decision calls answered

\* RunState::new gives every run a budget of 8 steps.
DefaultMaxSteps == 8

LoopIds == {1, 2}

None == <<>>
Some(x) == <<x>>

\* No exec call is under way.
NoExec == [pc |-> "none"]

\* No path is being resolved.
NoResolve == [op |-> "none"]

\* No command action is being dispatched.
NoCommand == [pc |-> "none"]

\* No whole RunState is followed.
NoStore == [op |-> "none"]

\* No judge evaluation is under way.
NoJudge == [pc |-> "none"]

\* No session is shared.
NoMux == [lock |-> "none"]

\* The mutex of the run state is not followed.
NoMutex == [holder |-> "none"]

\* No exec on a session is followed.
NoLog == [pc |-> "none"]

\* No session is registered and none is followed.
NoRegistry == [made |-> 0]

\* No tool is being called.
ToolsIdle ==
    /\ pty = NoExec
    /\ ws = NoResolve
    /\ cmd = NoCommand
    /\ store = NoStore
    /\ judge = NoJudge
    /\ mux = NoMux
    /\ mtx = NoMutex
    /\ tlog = NoLog
    /\ reg = NoRegistry

\* No decision call is under way.
NoDecision == [stage |-> "none", parsed |-> <<>>, actions |-> <<>>, err |-> None]

\* The tasks that emit events: the thread of the synchronous control
\* commands, the run_loop task, and the task of the asynchronous update_plan.
BusTasks == {"main", "loop", "plan"}

\* A task that is not inside a call of the event bus; the pc of the run_loop
\* task is "none" while no loop is spawned.
NoEmit == [pc |-> "idle", run_id |-> 0, seq |-> 0, then |-> "idle"]

----------------------------------------------------------------------------
\* Text handling of user_input: content is a sequence of characters.

\* char::is_whitespace, for the characters that occur.
IsSpace(ch) == ch \in {" ", "\t", "\n", "\r"}

RECURSIVE TrimStart(_)
TrimStart(s) ==
    IF s = <<>> THEN s
    ELSE IF IsSpace(Head(s)) THEN TrimStart(Tail(s)) ELSE s

RECURSIVE TrimEnd(_)
TrimEnd(s) ==
    IF s = <<>> THEN s
    ELSE IF IsSpace(s[Len(s)]) THEN TrimEnd(SubSeq(s, 1, Len(s) - 1)) ELSE s

Trim(s) == TrimEnd(TrimStart(s))

LowerChar(ch) ==
    CASE ch = "S" -> "s" [] ch = "T" -> "t" [] ch = "O" -> "o" [] ch = "P" -> "p"
      [] ch = "G" -> "g" [] ch = "C" -> "c" [] ch = "N" -> "n"
      [] ch = "R" -> "r" [] ch = "M" -> "m"
      [] OTHER -> ch

ToLowercase(s) == [i \in 1..Len(s) |-> LowerChar(s[i])]

\* The ASCII phrases of the two matches; the CJK phrases beside them are
\* matched the same way and have no spelling in a module.
StopPhrases == { <<"s","t","o","p">>, <<"c","a","n","c","e","l">>, <<"a","b","o","r","t">> }
ContinuePhrases == { <<"c","o","n","t","i","n","u","e">>, <<"g","o"," ","o","n">> }

is_stop_command_exact_case(input) == Trim(input) \in StopPhrases

is_stop_command(input) == ToLowercase(Trim(input)) \in StopPhrases

is_continue_command(input) == ToLowercase(Trim(input)) \in ContinuePhrases

\* The contents a caller passes to user_input.
UserContents ==
    { <<>>, <<" ">>,
      <<"s","t","o","p">>, <<" ","S","t","o","p"," ">>,
      <<"c","o","n","t","i","n","u","e">> }

\* Assistant texts.  Of the texts the model can produce and of the notices the
\* kernel writes, only "use the workspace?" holds one of the keywords
\* infer_default_continue_reply looks for, and none holds "user input
\* required" or "prompt:".
LlmTexts == {"use the workspace?"}
MentionsChoice(text) == text = "use the workspace?"
BlocksDefaultReply(text) == text = "user input required"

CannedReply == "canned: create/modify files in the workspace and continue"
Notice(max_steps) ==
    "Step budget reached (" \o ToString(max_steps)
        \o " steps). Reply \"continue\" to proceed or \"stop\" to end."
NoActionsText == "LLM returned no actions"
DecideErrText == "decision failed"
NoProfileText == "LLM profile not configured. Save a profile in LLM Settings."
ParseErrText == "Unable to parse JSON response from LLM."
RuntimeErrText == "Runtime error"
ObsFailText == "error"
ObsAskText == "needs user"

\* The String of a sequence of characters.
RECURSIVE to_string(_)
to_string(chars) ==
    IF chars = <<>> THEN "" ELSE Head(chars) \o to_string(Tail(chars))

ChatMessage(role, content) == [role |-> role, content |-> content]

----------------------------------------------------------------------------
\* RunState: run_id, agent_state, messages, plan, budget and last_error.
\* turn, tool_context, task_id, tasks, recent_observations and auto_run are
\* written but never read by the control flow modelled here.

RunState_new(run_id) ==
    [ run_id      |-> run_id,
      agent_state |-> "Idle",
      messages    |-> <<>>,
      plan        |-> None,
      budget      |-> [max_steps |-> DefaultMaxSteps, used_steps |-> 0],
      last_error  |-> None ]

\* u32::saturating_add; the counters of the model stay far below u32::MAX.
saturating_add(x, n) == x + n

\* The last assistant message, None when there is none.
RECURSIVE LastAssistant(_)
LastAssistant(messages) ==
    IF messages = <<>> THEN None
    ELSE IF messages[Len(messages)].role = "assistant"
         THEN Some(messages[Len(messages)].content)
         ELSE LastAssistant(SubSeq(messages, 1, Len(messages) - 1))

infer_default_continue_reply(st) ==
    LET last == LastAssistant(st.messages) IN
    IF last = None THEN None
    ELSE IF BlocksDefaultReply(last[1]) THEN None
    ELSE IF ~MentionsChoice(last[1]) THEN None
    ELSE Some(CannedReply)

----------------------------------------------------------------------------
\* Shared helpers of the actions

\* EventBus::emit, n times: each takes the next sequence number; `last` is
\* the last of them.  with_state: emit_state is among them, which puts a
\* snapshot of the run state into a StateChanged event and saves it.
Emit(n, last, with_state) ==
    /\ seq' = seq + n
    /\ event' = last
    /\ shown' = IF with_state THEN state'.agent_state ELSE shown

Push(st, role, content) ==
    [st EXCEPT !.messages = Append(@, ChatMessage(role, content))]

\* A control call arrives: it finds the run in some agent_state.
Call ==
    /\ inputs < MaxInputs
    /\ inputs' = inputs + 1
    /\ from' = state.agent_state

\* The model answers a decision call.
Answer ==
    /\ inputs < MaxInputs
    /\ inputs' = inputs + 1
    /\ UNCHANGED from

LiveLoops == {l \in LoopIds : loops[l].pc # "none"}
FreeLoops == LoopIds \ LiveLoops

NoLoop == [pc |-> "none", batch |-> <<>>, idx |-> 0, obs |-> "none"]

\* tauri::async_runtime::spawn(manager.run_loop(app)): one more loop task.
Spawned(ls) ==
    IF FreeLoops = {} THEN ls
    ELSE LET l == CHOOSE x \in FreeLoops : \A y \in FreeLoops : x <= y
         IN  [ls EXCEPT ![l] = [pc |-> "top", batch |-> <<>>, idx |-> 0, obs |-> "none"]]

\* `should_spawn && !self.running.swap(true)`: the swap is made only when
\* should_spawn holds, and a loop is spawned only when the flag was clear.
swap_spawns_unguarded(should_spawn, was_running) == should_spawn

swap_spawns(should_spawn, was_running) == should_spawn /\ ~was_running

SwapAndSpawn(should_spawn) ==
    /\ running' = (IF should_spawn THEN TRUE ELSE running)
    /\ loops' = (IF swap_spawns(should_spawn, running) THEN Spawned(loops) ELSE loops)

----------------------------------------------------------------------------
\* KernelManager::start

\* `if self.running.swap(true) { return Err("Kernel already running") }`
start_never_rejects(was_running) == FALSE

start_rejects(was_running) == was_running

\* KernelStartRequest.max_steps
StartRequests == {None, Some(1)}

\* Uuid::new_v4(): an id other than the one it replaces.
new_run_id(current) == IF current = "run-a" THEN "run-b" ELSE "run-a"

start_state(st, run_id, max_steps) ==
    LET fresh == RunState_new(run_id) IN
    [fresh EXCEPT !.plan = st.plan,
                  !.messages = st.messages,
                  !.agent_state = "Running",
                  !.budget.max_steps = IF max_steps = None THEN @ ELSE max_steps[1]]

\* The swap; then set_run (new run id, seq := 0), the replacement of the run
\* state, emit_state("start") and the spawn of the loop.
Start ==
    /\ Call
    /\ UNCHANGED side_vars
    /\ IF start_rejects(running)
       THEN /\ ret' = "Kernel already running"
            /\ UNCHANGED <<running, state, seq, event, shown, loops>>
       ELSE /\ running' = TRUE
            /\ \E max_steps \in StartRequests :
                  state' = start_state(state, new_run_id(state.run_id), max_steps)
            /\ seq' = 1
            /\ event' = "start"
            /\ shown' = state'.agent_state
            /\ loops' = Spawned(loops)
            /\ ret' = "ok"
    /\ UNCHANGED paused

----------------------------------------------------------------------------
\* KernelManager::pause

pause_update_from_any(st) == [st EXCEPT !.agent_state = "Paused"]

pause_update(st) ==
    IF st.agent_state = "Running" THEN [st EXCEPT !.agent_state = "Paused"] ELSE st

Pause ==
    /\ Call
    /\ UNCHANGED side_vars
    /\ paused' = TRUE
    /\ state' = pause_update(state)
    /\ Emit(1, "pause", TRUE)
    /\ ret' = "ok"
    /\ UNCHANGED <<running, loops>>

----------------------------------------------------------------------------
\* KernelManager::resume

resume_update(st) ==
    IF st.agent_state = "Paused" THEN [st EXCEPT !.agent_state = "Running"] ELSE st

resume_should_spawn(st) == st.agent_state = "Paused"

Resume ==
    /\ Call
    /\ UNCHANGED side_vars
    /\ paused' = FALSE
    /\ state' = resume_update(state)
    /\ Emit(1, "resume", TRUE)
    /\ SwapAndSpawn(resume_should_spawn(state))
    /\ ret' = "ok"

----------------------------------------------------------------------------
\* KernelManager::stop

stop_update_from_any(st) == [st EXCEPT !.agent_state = "Finished"]

stop_update(st) ==
    IF st.agent_state # "Idle" THEN [st EXCEPT !.agent_state = "Finished"] ELSE st

Stop ==
    /\ Call
    /\ UNCHANGED side_vars
    /\ paused' = FALSE
    /\ state' = stop_update(state)
    /\ Emit(1, "stop", TRUE)
    /\ ret' = "ok"
    /\ UNCHANGED <<running, loops>>

----------------------------------------------------------------------------
\* KernelManager::continue_run

\* A continue_run that resets the budget and the error in every state.
continue_update_unguarded(st) ==
    [st EXCEPT !.agent_state = IF @ = "AwaitingUser" THEN "Running" ELSE @,
               !.budget.used_steps = 0,
               !.last_error = None]

continue_update(st) ==
    IF st.agent_state = "AwaitingUser"
    THEN [st EXCEPT !.agent_state = "Running",
                    !.budget.used_steps = 0,
                    !.last_error = None]
    ELSE st

continue_should_spawn_always(st) == TRUE

continue_should_spawn(st) == st.agent_state = "AwaitingUser"

ContinueRun ==
    /\ Call
    /\ UNCHANGED side_vars
    /\ paused' = FALSE
    /\ state' = continue_update(state)
    /\ Emit(1, "continue", TRUE)
    /\ SwapAndSpawn(continue_should_spawn(state))
    /\ ret' = "ok"

----------------------------------------------------------------------------
\* KernelManager::user_input

user_input_final_content(st, content) ==
    IF st.agent_state = "AwaitingUser" /\ is_continue_command(content)
          /\ infer_default_continue_reply(st) # None
    THEN infer_default_continue_reply(st)[1]
    ELSE to_string(content)

user_input_reset_always(st) ==
    [st EXCEPT !.budget.used_steps = 0, !.last_error = None]

user_input_reset(st) ==
    IF st.agent_state = "AwaitingUser"
    THEN [st EXCEPT !.budget.used_steps = 0, !.last_error = None]
    ELSE st

user_input_next_state_listed(agent_state) ==
    IF agent_state \in {"AwaitingUser", "Idle", "Error"} THEN "Running" ELSE agent_state

user_input_next_state(agent_state) ==
    IF agent_state # "Running" THEN "Running" ELSE agent_state

\* The update_state closure: the new state and the closure's out-variables.
user_input_update(st, content) ==
    IF is_stop_command(content)
    THEN [ state |-> [st EXCEPT !.agent_state = "Finished", !.last_error = None],
           control_stop |-> TRUE, should_spawn |-> FALSE ]
    ELSE [ state |-> [ Push(user_input_reset(st), "user",
                            user_input_final_content(st, content))
                       EXCEPT !.agent_state = user_input_next_state(st.agent_state) ],
           control_stop |-> FALSE, should_spawn |-> TRUE ]

\* Trim and the empty check; the update_state closure and the UserMessage
\* event; then either the stop branch (paused := false, emit_state) or
\* emit_state, the swap and the spawn.
UserInput(raw) ==
    /\ Call
    /\ UNCHANGED side_vars
    /\ LET content == Trim(raw) IN
           IF content = <<>>
           THEN /\ ret' = "User input cannot be empty"
                /\ UNCHANGED <<running, paused, state, seq, event, shown, loops>>
           ELSE LET r == user_input_update(state, content) IN
                /\ state' = r.state
                /\ Emit(2, IF r.control_stop THEN "user_stop" ELSE "user_input", TRUE)
                /\ IF r.control_stop
                   THEN paused' = FALSE /\ UNCHANGED <<running, loops>>
                   ELSE SwapAndSpawn(r.should_spawn) /\ UNCHANGED paused
                /\ ret' = "ok"

----------------------------------------------------------------------------
\* KernelManager::update_plan (explicit steps) and apply_plan

\* KernelPlanUpdateRequest: a goal and its steps.
PlanGoals == { <<" ">>, <<"g">> }
PlanSteps == { <<>>, << <<" ">> >>, << <<"a">>, <<" ">> >> }

\* The steps that are not blank, trimmed.
RECURSIVE plan_steps(_)
plan_steps(steps) ==
    IF steps = <<>> THEN <<>>
    ELSE IF Trim(Head(steps)) = <<>> THEN plan_steps(Tail(steps))
    ELSE <<Trim(Head(steps))>> \o plan_steps(Tail(steps))

apply_plan(st, plan) == [st EXCEPT !.plan = Some(plan)]

UpdatePlan(raw_goal, raw_steps) ==
    /\ Call
    /\ UNCHANGED side_vars
    /\ LET goal  == Trim(raw_goal)
           steps == plan_steps(raw_steps)
       IN
           IF goal = <<>>
           THEN /\ ret' = "Plan goal cannot be empty"
                /\ UNCHANGED <<running, paused, state, seq, event, shown, loops>>
           ELSE IF steps = <<>>
           THEN /\ ret' = "Plan steps cannot be empty"
                /\ UNCHANGED <<running, paused, state, seq, event, shown, loops>>
           ELSE /\ state' = apply_plan(state, [goal |-> goal, steps |-> steps])
                /\ Emit(2, "plan_update", TRUE)
                /\ ret' = "ok"
                /\ UNCHANGED <<running, paused, loops>>

----------------------------------------------------------------------------
\* KernelManager::run_loop

ActionKinds == {"terminal.exec", "user.ask"}

\* The batches the model may return: every batch of at most two actions.
Batches ==
    { <<>> } \cup { <<a>> : a \in ActionKinds } \cup
    { <<a, b>> : a \in ActionKinds, b \in ActionKinds }

\* What decide_actions_with_llm returns: Err(text), or Ok(LlmDecision) with
\* the actions left after the allow-list filter.
AskQuestion == "use the workspace?"

\* The failures of the decision call: no active profile, an error of the
\* provider's request, and a response that does not parse.  `done` tells
\* whether AgentMessageDone was emitted before the failure: a response is
\* parsed only after it.
DecisionFailures ==
    { [err |-> NoProfileText, done |-> FALSE],
      [err |-> DecideErrText, done |-> FALSE],
      [err |-> ParseErrText,  done |-> TRUE] }

Decisions ==
    { [ok |-> FALSE, message |-> None, actions |-> <<>>, err |-> Some(f.err), done |-> f.done] :
        f \in DecisionFailures } \cup
    { [ok |-> TRUE, message |-> m, actions |-> a, err |-> None, done |-> TRUE] :
        m \in {None} \cup {Some(t) : t \in LlmTexts}, a \in Batches }

\* What Runtime::dispatch returns for a tool action: Err(text), or an
\* Observation that is ok, failed, or asks for the user.
DispatchOutcomes == {"ok", "failed", "requires_user", "dispatch_error"}

IsUserAsk_wrong_tag(action) == action = "user_ask"

IsUserAsk(action) == action = "user.ask"

SetLoop(l, pc, batch, idx) ==
    loops' = [loops EXCEPT ![l] = [pc |-> pc, batch |-> batch, idx |-> idx, obs |-> "none"]]

GotoLoop(l, pc) == SetLoop(l, pc, loops[l].batch, loops[l].idx)

\* `if self.paused.load() { sleep(300ms); continue; }`
loop_sleeps(is_paused) == is_paused

LoopTop(l) ==
    /\ loops[l].pc = "top"
    /\ UNCHANGED side_vars
    /\ IF loop_sleeps(paused)
       THEN UNCHANGED loops
       ELSE SetLoop(l, "snapshot", <<>>, 0)
    /\ UNCHANGED <<running, paused, state, seq, event, shown, ret, from, inputs>>

budget_reached_strict(budget) == budget.used_steps > budget.max_steps

budget_reached(budget) == budget.used_steps >= budget.max_steps

\* snapshot_agent_state, the Running check and the budget check on the snapshot.
LoopSnapshot(l) ==
    /\ loops[l].pc = "snapshot"
    /\ UNCHANGED side_vars
    /\ IF state.agent_state # "Running" THEN GotoLoop(l, "exit")
       ELSE IF budget_reached(state.budget) THEN GotoLoop(l, "budget")
       ELSE GotoLoop(l, "decide")
    /\ UNCHANGED <<running, paused, state, seq, event, shown, ret, from, inputs>>

budget_update(st) ==
    [ Push(st, "assistant", Notice(st.budget.max_steps))
      EXCEPT !.agent_state = "AwaitingUser", !.last_error = None ]

\* The notice, the AgentMessage event and emit_state("step_budget").
\* (max_steps is the snapshot's: only start changes it, and start is
\* rejected while this loop lives.)
LoopBudget(l) ==
    /\ loops[l].pc = "budget"
    /\ UNCHANGED side_vars
    /\ state' = budget_update(state)
    /\ Emit(2, "step_budget", TRUE)
    /\ GotoLoop(l, "exit")
    /\ UNCHANGED <<running, paused, ret, from, inputs>>

decide_error_no_state(st, err) ==
    [Push(st, "assistant", err) EXCEPT !.last_error = Some(err)]

decide_error(st, err) ==
    [ Push(st, "assistant", err)
      EXCEPT !.agent_state = "Error", !.last_error = Some(err) ]

\* `message`, defaulted to the question of the first UserAsk action.
decision_message(d) ==
    IF d.message # None THEN d.message
    ELSE IF \E i \in 1..Len(d.actions) : IsUserAsk(d.actions[i]) THEN Some(AskQuestion)
    ELSE None

with_message(st, message) ==
    IF message # None THEN Push(st, "assistant", message[1]) ELSE st

no_actions_update_finished(st, message) == [st EXCEPT !.agent_state = "Finished"]

no_actions_update(st, message) ==
    IF message # None
    THEN [st EXCEPT !.agent_state = "Finished"]
    ELSE [ Push(st, "assistant", NoActionsText)
           EXCEPT !.agent_state = "AwaitingUser", !.last_error = Some(NoActionsText) ]

\* The decision call returns; its message is appended; an empty action list
\* ends the run; otherwise the batch is proposed.
LoopDecide(l) ==
    /\ loops[l].pc = "decide"
    /\ UNCHANGED side_vars
    /\ Answer
    /\ \E d \in Decisions :
          IF ~d.ok
          THEN /\ state' = decide_error(state, d.err[1])
               /\ Emit((IF d.done THEN 1 ELSE 0) + 2, "agent_error", TRUE)
               /\ GotoLoop(l, "exit")
          ELSE LET message == decision_message(d)
                   \* AgentMessageDone; AgentMessage and emit_state for a message
                   n_msg == IF message # None THEN 3 ELSE 1
               IN  IF d.actions = <<>>
                   THEN /\ state' = no_actions_update(with_message(state, message), message)
                        /\ IF message # None
                           THEN Emit(n_msg + 1, "finished", TRUE)
                           ELSE Emit(n_msg + 2, "awaiting_user", TRUE)
                        /\ GotoLoop(l, "exit")
                   ELSE /\ state' = with_message(state, message)
                        /\ Emit(n_msg + 1, "AgentActionProposed", message # None)
                        /\ SetLoop(l, "act", d.actions, 1)
    /\ UNCHANGED <<running, paused, ret>>

\* Top of the action loop: snapshot_agent_state and the Running check, then
\* either the UserAsk branch or ToolCallStarted and the dispatch.
LoopAct(l) ==
    /\ loops[l].pc = "act"
    /\ UNCHANGED side_vars
    /\ IF state.agent_state # "Running"
       THEN GotoLoop(l, "exit") /\ UNCHANGED <<seq, event, shown>>
       ELSE IF IsUserAsk(loops[l].batch[loops[l].idx])
            THEN GotoLoop(l, "ask") /\ UNCHANGED <<seq, event, shown>>
            ELSE GotoLoop(l, "dispatch") /\ Emit(1, "ToolCallStarted", FALSE)
    /\ UNCHANGED <<running, paused, state, ret, from, inputs>>

ask_update(st) == [st EXCEPT !.agent_state = "AwaitingUser"]

\* The UserAsk branch: AwaitingUser, the two events, `break 'run`.
LoopAsk(l) ==
    /\ loops[l].pc = "ask"
    /\ UNCHANGED side_vars
    /\ state' = ask_update(state)
    /\ Emit(2, "awaiting_user", TRUE)
    /\ GotoLoop(l, "exit")
    /\ UNCHANGED <<running, paused, ret, from, inputs>>

\* The texts of the errors Runtime::dispatch returns.
DispatchErrs == { <<" ">>, <<"e","r","r">> }

dispatch_error_message_raw(err) == to_string(err)

\* `if err.trim().is_empty() { "Runtime error" } else { err }`
dispatch_error_message(err) ==
    IF Trim(err) = <<>> THEN RuntimeErrText ELSE to_string(err)

dispatch_error_update(st, message) ==
    [st EXCEPT !.agent_state = "Error", !.last_error = Some(message)]

apply_observation_lenient(st, outcome) ==
    IF outcome = "requires_user"
    THEN [st EXCEPT !.agent_state = "AwaitingUser", !.last_error = Some(ObsAskText)]
    ELSE st

\* For a tool action (not PlanUpdate): requires_user, ok (which only marks
\* the plan step and task of the action's id done) or failed.
apply_observation(st, outcome) ==
    IF outcome = "requires_user"
    THEN [st EXCEPT !.agent_state = "AwaitingUser", !.last_error = Some(ObsAskText)]
    ELSE IF outcome = "ok" THEN st
    ELSE [st EXCEPT !.agent_state = "Error", !.last_error = Some(ObsFailText)]

after_observation_no_break(outcome, idx, len) ==
    IF idx < len THEN "act" ELSE "step_done"

\* After an applied observation: stop on requires_user, else the next action,
\* else the end of the batch.
after_observation(outcome, idx, len) ==
    IF outcome = "requires_user" THEN "exit"
    ELSE IF idx < len THEN "act"
    ELSE "step_done"

\* Runtime::dispatch returns and its result is folded into the run state.
LoopDispatch(l) ==
    /\ loops[l].pc = "dispatch"
    /\ UNCHANGED side_vars
    /\ \E outcome \in DispatchOutcomes :
          IF outcome = "dispatch_error"
          THEN /\ \E err \in DispatchErrs :
                    state' = dispatch_error_update(state, dispatch_error_message(err))
               /\ Emit(3, "runtime_error", TRUE)
               /\ GotoLoop(l, "exit")
          ELSE /\ state' = apply_observation(state, outcome)
               /\ IF outcome = "requires_user"
                  THEN Emit(4, "awaiting_user", TRUE)
                  ELSE Emit(3, "Observation", FALSE)
               /\ LET next == after_observation(outcome, loops[l].idx, Len(loops[l].batch)) IN
                  loops' = [loops EXCEPT ![l] =
                              [ pc    |-> next,
                                batch |-> loops[l].batch,
                                idx   |-> IF next = "act" THEN loops[l].idx + 1 ELSE loops[l].idx,
                                obs   |-> outcome ]]
    /\ UNCHANGED <<running, paused, ret, from, inputs>>

step_complete(st) ==
    [st EXCEPT !.budget.used_steps = saturating_add(@, 1)]

\* The batch completed: used_steps += 1, emit_state("step_complete"), JudgeResult.
LoopStepDone(l) ==
    /\ loops[l].pc = "step_done"
    /\ UNCHANGED side_vars
    /\ state' = step_complete(state)
    /\ Emit(2, "JudgeResult", TRUE)
    /\ SetLoop(l, "top", <<>>, 0)
    /\ UNCHANGED <<running, paused, ret, from, inputs>>

\* A task that ends and leaves the flag as it finds it.
exit_store_kept(was_running) == was_running

\* `self.running.store(false, Ordering::SeqCst)`
exit_store(was_running) == FALSE

\* `self.running.store(false)` as the task ends.
LoopExit(l) ==
    /\ loops[l].pc = "exit"
    /\ UNCHANGED side_vars
    /\ running' = exit_store(running)
    /\ loops' = [loops EXCEPT ![l] = NoLoop]
    /\ UNCHANGED <<paused, state, seq, event, shown, ret, from, inputs>>

----------------------------------------------------------------------------
\* The system

\* The kernel as it is constructed, with no call of it under way.
KernelIdle ==
    /\ running = FALSE
    /\ paused = FALSE
    /\ state = RunState_new("default")
    /\ seq = 0
    /\ shown = "Idle"
    /\ event = "none"
    /\ ret = "none"
    /\ from = "Idle"
    /\ inputs = 0
    /\ loops = [l \in LoopIds |-> NoLoop]
    /\ bus_run_id = 0
    /\ log = <<>>
    /\ emitters = [t \in BusTasks |->
                      IF t = "loop" THEN [NoEmit EXCEPT !.pc = "none"] ELSE NoEmit]
    /\ profile = {}
    /\ response = [shape |-> "array", message |-> None, items |-> <<>>]
    /\ decision = NoDecision

Init ==
    /\ KernelIdle
    /\ ToolsIdle

Next ==
    \/ Start
    \/ Pause
    \/ Resume
    \/ Stop
    \/ ContinueRun
    \/ \E raw \in UserContents : UserInput(raw)
    \/ \E goal \in PlanGoals, steps \in PlanSteps : UpdatePlan(goal, steps)
    \/ \E l \in LoopIds : LoopTop(l)
    \/ \E l \in LoopIds : LoopSnapshot(l)
    \/ \E l \in LoopIds : LoopBudget(l)
    \/ \E l \in LoopIds : LoopDecide(l)
    \/ \E l \in LoopIds : LoopAct(l)
    \/ \E l \in LoopIds : LoopAsk(l)
    \/ \E l \in LoopIds : LoopDispatch(l)
    \/ \E l \in LoopIds : LoopStepDone(l)
    \/ \E l \in LoopIds : LoopExit(l)

Spec == Init /\ [][Next]_vars

\* The kernel with a run loop task that, once it has left its loop, reaches
\* its end: nothing but the store of the flag stands between the two.  Its
\* control calls and decision calls are counted up to MaxLiveInputs.
MaxLiveInputs == 3

LiveNext ==
    \/ (Start) /\ inputs' <= MaxLiveInputs
    \/ (Pause) /\ inputs' <= MaxLiveInputs
    \/ (Resume) /\ inputs' <= MaxLiveInputs
    \/ (Stop) /\ inputs' <= MaxLiveInputs
    \/ (ContinueRun) /\ inputs' <= MaxLiveInputs
    \/ (\E raw \in UserContents : UserInput(raw)) /\ inputs' <= MaxLiveInputs
    \/ (\E goal \in PlanGoals, steps \in PlanSteps : UpdatePlan(goal, steps)) /\ inputs' <= MaxLiveInputs
    \/ (\E l \in LoopIds : LoopTop(l)) /\ inputs' <= MaxLiveInputs
    \/ (\E l \in LoopIds : LoopSnapshot(l)) /\ inputs' <= MaxLiveInputs
    \/ (\E l \in LoopIds : LoopBudget(l)) /\ inputs' <= MaxLiveInputs
    \/ (\E l \in LoopIds : LoopDecide(l)) /\ inputs' <= MaxLiveInputs
    \/ (\E l \in LoopIds : LoopAct(l)) /\ inputs' <= MaxLiveInputs
    \/ (\E l \in LoopIds : LoopAsk(l)) /\ inputs' <= MaxLiveInputs
    \/ (\E l \in LoopIds : LoopDispatch(l)) /\ inputs' <= MaxLiveInputs
    \/ (\E l \in LoopIds : LoopStepDone(l)) /\ inputs' <= MaxLiveInputs
    \/ (\E l \in LoopIds : LoopExit(l)) /\ inputs' <= MaxLiveInputs

ExitLive ==
    /\ Init
    /\ [][LiveNext]_vars
    /\ \A l \in LoopIds : WF_vars(LoopExit(l))

----------------------------------------------------------------------------
\* The event bus, step by step.  EventBus::emit reads the run id under its
\* lock, takes a sequence number with fetch_add and appends the event to the
\* log of the run id it read; set_run stores the new run id under the lock
\* and then stores 0 in the counter.  Nothing holds a lock across these steps,
\* so the steps of different tasks interleave.  Run ids are numbered: 0 is the
\* id the bus is created with, and every start makes the next one.

MaxEvents == 3      \* events emitted
MaxRuns == 2        \* runs started

\* The tasks inside start or inside emit: each will append one event.
InFlight == {t \in BusTasks : emitters[t].pc \notin {"idle", "none", "spawn"}}

HasRoom == Len(log) + Cardinality(InFlight) < MaxEvents

SetEmitter(t, pc, run_id, n, then) ==
    emitters' = [emitters EXCEPT ![t] =
                    [pc |-> pc, run_id |-> run_id, seq |-> n, then |-> then]]

\* A task calls EventBus::emit, and goes to `then` when the call returns.
BeginEmit(t, then) ==
    /\ emitters[t].pc = "idle"
    /\ HasRoom
    /\ SetEmitter(t, "read", 0, 0, then)

BusUntouched ==
    UNCHANGED <<paused, state, event, shown, ret, from, inputs, loops, llm_vars, tool_vars>>

\* `self.run_id.lock().map(|value| value.clone())`
EmitReadRun(t) ==
    /\ emitters[t].pc = "read"
    /\ SetEmitter(t, "fetch", bus_run_id, 0, emitters[t].then)
    /\ UNCHANGED <<running, seq, bus_run_id, log>>
    /\ BusUntouched

\* `self.seq.fetch_add(1, Ordering::SeqCst)`
EmitFetchAdd(t) ==
    /\ emitters[t].pc = "fetch"
    /\ seq' = seq + 1
    /\ SetEmitter(t, "append", emitters[t].run_id, seq, emitters[t].then)
    /\ UNCHANGED <<running, bus_run_id, log>>
    /\ BusUntouched

\* append_event: one line at the end of the log of the event's run id.
AppendEvent(t) ==
    /\ emitters[t].pc = "append"
    /\ log' = Append(log, [run_id |-> emitters[t].run_id, seq |-> emitters[t].seq])
    /\ SetEmitter(t, emitters[t].then, 0, 0, "idle")
    /\ UNCHANGED <<running, seq, bus_run_id>>
    /\ BusUntouched

\* start: `self.running.swap(true)`, which rejects the call when a loop is
\* live.
BusStart ==
    /\ emitters["main"].pc = "idle"
    /\ ~start_rejects(running)
    /\ bus_run_id < MaxRuns
    /\ HasRoom
    /\ running' = TRUE
    /\ SetEmitter("main", "set_run", 0, 0, "idle")
    /\ UNCHANGED <<seq, bus_run_id, log>>
    /\ BusUntouched

\* set_run: `*current = run_id` under the lock.
SetRunId ==
    /\ emitters["main"].pc = "set_run"
    /\ bus_run_id' = bus_run_id + 1
    /\ SetEmitter("main", "set_seq", 0, 0, "idle")
    /\ UNCHANGED <<running, seq, log>>
    /\ BusUntouched

\* set_run: `self.seq.store(0)`; start goes on to emit_state("start").
SetRunSeq ==
    /\ emitters["main"].pc = "set_seq"
    /\ seq' = 0
    /\ SetEmitter("main", "read", 0, 0, "spawn")
    /\ UNCHANGED <<running, bus_run_id, log>>
    /\ BusUntouched

\* start: `tauri::async_runtime::spawn(manager.run_loop(app))`
BusSpawn ==
    /\ emitters["main"].pc = "spawn"
    /\ emitters' = [emitters EXCEPT !["main"] = NoEmit, !["loop"] = NoEmit]
    /\ UNCHANGED <<running, seq, bus_run_id, log>>
    /\ BusUntouched

\* pause, resume, stop, continue_run, user_input: emit_state.
BusControlEmit ==
    /\ BeginEmit("main", "idle")
    /\ UNCHANGED <<running, seq, bus_run_id, log>>
    /\ BusUntouched

\* run_loop emits an event.
BusLoopEmit ==
    /\ running
    /\ BeginEmit("loop", "idle")
    /\ UNCHANGED <<running, seq, bus_run_id, log>>
    /\ BusUntouched

\* run_loop ends: `self.running.store(false)`.
BusLoopExit ==
    /\ running
    /\ emitters["loop"].pc = "idle"
    /\ running' = FALSE
    /\ SetEmitter("loop", "none", 0, 0, "idle")
    /\ UNCHANGED <<seq, bus_run_id, log>>
    /\ BusUntouched

\* update_plan, an async command: apply_plan emits PlanUpdated.
BusPlanEmit ==
    /\ BeginEmit("plan", "idle")
    /\ UNCHANGED <<running, seq, bus_run_id, log>>
    /\ BusUntouched

BusNext ==
    \/ BusStart
    \/ SetRunId
    \/ SetRunSeq
    \/ BusSpawn
    \/ BusControlEmit
    \/ BusLoopEmit
    \/ BusLoopExit
    \/ BusPlanEmit
    \/ \E t \in BusTasks : EmitReadRun(t)
    \/ \E t \in BusTasks : EmitFetchAdd(t)
    \/ \E t \in BusTasks : AppendEvent(t)

BusSpec == Init /\ [][BusNext]_vars

----------------------------------------------------------------------------
\* The decision call, step by step: decide_actions_with_llm builds the
\* allow-list of the profile, parses the response, keeps the allowed actions,
\* and run_loop either fails the run or takes the actions as its batch.

MaxActions == 2     \* actions in one response

\* LlmToolToggle.id: two ids that stand for actions, and one that stands for
\* none.
ToggleIds == {"terminal.exec_interactive", "fs.apply_patch", "fs.list"}

\* LlmProfile.tool_toggles: no toggle at all, or every toggle on or off.
Profiles ==
    { {} } \cup { {[id |-> t, enabled |-> t \in on] : t \in ToggleIds} : on \in SUBSET ToggleIds }

KnownTypes ==
    { "terminal.exec", "terminal.run", "fs.read", "fs.write", "fs.search",
      "git.status", "git.diff", "tests.run", "plan.update", "task.update",
      "user.ask" }

ControlTypes == {"plan.update", "task.update", "user.ask"}

\* The "type" of an action of the response: absent, a known type, or another.
RawTypes ==
    { None } \cup
    { Some(t) : t \in {"terminal.exec", "fs.write", "git.status", "user.ask", "fs.delete"} }

\* The "id" of an action of the response: absent, or a string.
RawIds == { None, Some(<<"a">>) }

\* An action of the response; `fields`: the string fields its type requires
\* are present and not blank.
RawActions == [type : RawTypes, id : RawIds, fields : BOOLEAN]

\* The response: an array of actions (at top level, or under "actions" or
\* "action"), or one object at top level.
Responses ==
    { [shape |-> "array", message |-> m, items |-> items] :
        m \in {None} \cup {Some(t) : t \in LlmTexts},
        items \in UNION { [1..n -> RawActions] : n \in 0..MaxActions } } \cup
    { [shape |-> "object", message |-> None, items |-> <<item>>] : item \in RawActions }

Ok(actions) == [ok |-> TRUE, actions |-> actions, err |-> None]
Err(text) == [ok |-> FALSE, actions |-> <<>>, err |-> Some(text)]

map_tool_toggle_to_action(toggle_id) ==
    CASE toggle_id \in {"terminal.exec_interactive", "terminal.exec"} -> Some("terminal.exec")
      [] toggle_id \in {"terminal.run_command", "terminal.run"} -> Some("terminal.run")
      [] toggle_id \in {"fs.read_file", "fs.read"} -> Some("fs.read")
      [] toggle_id \in {"fs.write_file", "fs.write", "fs.apply_patch"} -> Some("fs.write")
      [] toggle_id \in {"fs.search", "git.status", "git.diff", "tests.run"} -> Some(toggle_id)
      [] OTHER -> None

\* None when there is no toggle, and also when no enabled toggle stands for
\* an action.
build_allowed_action_set(toggles) ==
    LET allowed == { map_tool_toggle_to_action(t.id)[1] :
                       t \in {x \in toggles : x.enabled /\ map_tool_toggle_to_action(x.id) # None} }
    IN  IF toggles = {} THEN None
        ELSE IF allowed = {} THEN None
        ELSE Some(allowed)

\* action_type: the tag of the variant, which parse_action made from "type".
action_type(action) == action.type

action_allowed(action, allowed) ==
    IF action_type(action) \in ControlTypes THEN TRUE
    ELSE IF allowed = None THEN TRUE
    ELSE action_type(action) \in allowed[1]

action_id_prefix(type) ==
    CASE type = "terminal.exec" -> "term"
      [] type = "terminal.run" -> "run"
      [] type = "fs.read" -> "read"
      [] type = "fs.write" -> "write"
      [] type = "fs.search" -> "search"
      [] type = "git.status" -> "git"
      [] type = "git.diff" -> "diff"
      [] type = "tests.run" -> "test"
      [] type = "plan.update" -> "plan"
      [] type = "task.update" -> "task"
      [] type = "user.ask" -> "ask"
      [] OTHER -> "act"

\* Uuid::new_v4(): the k-th call gives a value no other call gives.
Uuid(k) == <<"uuid", k>>

\* format!("{}_{}", prefix, Uuid::new_v4())
make_id(prefix, k) == <<prefix, "_", Uuid(k)>>

\* coerce_string of a JSON string: the string, trimmed.
coerce_string(value) == IF value = None THEN None ELSE Some(Trim(value[1]))

\* The first string field the type requires.
RequiredField(type) ==
    CASE type = "terminal.exec" -> Some("cmd")
      [] type \in {"terminal.run", "tests.run"} -> Some("program")
      [] type \in {"fs.read", "fs.write"} -> Some("path")
      [] type = "fs.search" -> Some("pattern")
      [] type = "user.ask" -> Some("question")
      [] OTHER -> None

\* parse_action of the k-th action of the response.
parse_action(item, k) ==
    IF item.type = None THEN Err("Action type is required")
    ELSE LET type == item.type[1]
             id   == IF coerce_string(item.id) = None
                     THEN make_id(action_id_prefix(type), k)
                     ELSE coerce_string(item.id)[1]
         IN  IF type \notin KnownTypes THEN Err("Unsupported action type")
             ELSE IF RequiredField(type) # None /\ ~item.fields THEN Err("Field is required")
             ELSE Ok(<<[type |-> type, id |-> id]>>)

\* Every action is kept, and one that does not parse is left out.
parse_actions_value_skipping(items) ==
    LET results == [i \in 1..Len(items) |-> parse_action(items[i], i)]
        good    == SelectSeq([i \in 1..Len(items) |-> i], LAMBDA i : results[i].ok)
    IN  Ok([n \in 1..Len(good) |-> results[good[n]].actions[1]])

\* `actions.push(parse_action(item, goal_hint)?)` for every item: the error of
\* the first action that does not parse, or all the actions.
parse_actions_value(items) ==
    LET results == [i \in 1..Len(items) |-> parse_action(items[i], i)]
        bad     == {i \in 1..Len(items) : ~results[i].ok}
    IN  IF bad # {}
        THEN results[CHOOSE i \in bad : \A j \in bad : i <= j]
        ELSE Ok([i \in 1..Len(items) |-> results[i].actions[1]])

\* An object at top level is an action only when it has a "type".
parse_llm_response(resp) ==
    IF resp.shape = "object" /\ resp.items[1].type = None THEN Ok(<<>>)
    ELSE parse_actions_value(resp.items)

\* `decision.actions.retain(|action| action_allowed(action, &allowed))`
retain_allowed(actions, allowed) ==
    SelectSeq(actions, LAMBDA action : action_allowed(action, allowed))

SetDecision(stage, parsed, actions, err) ==
    decision' = [stage |-> stage, parsed |-> parsed, actions |-> actions, err |-> err]

\* The model answers; AgentMessageDone is emitted and the response is parsed.
DecideParse(l) ==
    /\ loops[l].pc = "decide"
    /\ decision.stage = "none"
    /\ Answer
    /\ LET r == parse_llm_response(response) IN
       IF r.ok THEN SetDecision("parsed", r.actions, r.actions, None)
               ELSE SetDecision("failed", <<>>, <<>>, r.err)
    /\ Emit(1, "AgentMessageDone", FALSE)
    /\ UNCHANGED <<running, paused, state, ret, loops, bus_vars, profile, response, tool_vars>>

\* The actions the allow-list of the profile does not allow are removed.
DecideRetain(l) ==
    /\ loops[l].pc = "decide"
    /\ decision.stage = "parsed"
    /\ SetDecision("retained", decision.parsed,
                   retain_allowed(decision.parsed, build_allowed_action_set(profile)), None)
    /\ UNCHANGED <<running, paused, state, seq, event, shown, ret, from, inputs, loops,
                   bus_vars, profile, response, tool_vars>>

\* run_loop, `Err(err)`: the run fails and the loop ends.
DecideFail(l) ==
    /\ loops[l].pc = "decide"
    /\ decision.stage = "failed"
    /\ state' = decide_error(state, decision.err[1])
    /\ Emit(2, "agent_error", TRUE)
    /\ GotoLoop(l, "exit")
    /\ SetDecision("done", <<>>, <<>>, decision.err)
    /\ UNCHANGED <<running, paused, ret, from, inputs, bus_vars, profile, response, tool_vars>>

\* run_loop, `Ok(decision)`: the message, then the end of the run when no
\* action is left, or the actions as the batch of the action loop.
DecideTake(l) ==
    /\ loops[l].pc = "decide"
    /\ decision.stage = "retained"
    /\ LET types   == [i \in 1..Len(decision.actions) |-> action_type(decision.actions[i])]
           message == decision_message([message |-> response.message, actions |-> types])
           n_msg   == IF message # None THEN 2 ELSE 0
       IN  IF decision.actions = <<>>
           THEN /\ state' = no_actions_update(with_message(state, message), message)
                /\ IF message # None
                   THEN Emit(n_msg + 1, "finished", TRUE)
                   ELSE Emit(n_msg + 2, "awaiting_user", TRUE)
                /\ GotoLoop(l, "exit")
           ELSE /\ state' = with_message(state, message)
                /\ Emit(n_msg + 1, "AgentActionProposed", message # None)
                /\ SetLoop(l, "act", decision.actions, 1)
    /\ SetDecision("done", decision.parsed, decision.actions, None)
    /\ UNCHANGED <<running, paused, ret, from, inputs, bus_vars, profile, response, tool_vars>>

\* A run that was started, with its loop about to call
\* decide_actions_with_llm; the profile and the response are any.
DecideInit ==
    /\ running = TRUE
    /\ paused = FALSE
    /\ state = start_state(RunState_new("default"), "run-a", None)
    /\ seq = 1
    /\ shown = "Running"
    /\ event = "start"
    /\ ret = "ok"
    /\ from = "Idle"
    /\ inputs = 1
    /\ loops = [l \in LoopIds |->
                  IF l = 1 THEN [pc |-> "decide", batch |-> <<>>, idx |-> 0, obs |-> "none"]
                  ELSE NoLoop]
    /\ bus_run_id = 0
    /\ log = <<>>
    /\ emitters = [t \in BusTasks |-> NoEmit]
    /\ profile \in Profiles
    /\ response \in Responses
    /\ decision = NoDecision
    /\ ToolsIdle

DecideNext ==
    \/ \E l \in LoopIds : DecideParse(l)
    \/ \E l \in LoopIds : DecideRetain(l)
    \/ \E l \in LoopIds : DecideFail(l)
    \/ \E l \in LoopIds : DecideTake(l)

DecideSpec == DecideInit /\ [][DecideNext]_vars

----------------------------------------------------------------------------
\* services/pty.rs: the shell protocol of exec.  Text is a sequence of
\* characters; ESC is the escape character.  The two markers stand for
\* "__TAURIHANDS_START:<token>__" and "__TAURIHANDS_END:<token>:".

ESC == "ESC"
start_marker == <<"_", "S">>
end_marker_prefix == <<"_", "E">>

TimeoutText == "Timeout waiting for command completion."

\* str::find from position `start` on: the first place where pat occurs, and
\* 0 when there is none.  Positions count from 1.
Find(raw, pat, start) ==
    LET hits == {i \in start..(Len(raw) - Len(pat) + 1) : SubSeq(raw, i, i + Len(pat) - 1) = pat}
    IN  IF hits = {} THEN 0 ELSE CHOOSE i \in hits : \A j \in hits : i <= j

\* `(0x40..=0x7e).contains(&b)`: the final byte of a CSI sequence.
IsCsiFinal(b) == b \in {"_", "S", "E", "x", "h", "t", "m", "["}

\* The scan of is_marker_line_start from position i up to idx; in_csi: the
\* scan is inside a CSI sequence.
RECURSIVE ScanLineStart(_, _, _, _)
ScanLineStart(raw, i, idx, in_csi) ==
    IF i >= idx THEN TRUE
    ELSE IF in_csi THEN ScanLineStart(raw, i + 1, idx, ~IsCsiFinal(raw[i]))
    ELSE IF raw[i] \in {" ", "\t", "\r"} THEN ScanLineStart(raw, i + 1, idx, FALSE)
    ELSE IF raw[i] = ESC
         THEN IF i + 1 < idx /\ raw[i + 1] = "["
              THEN ScanLineStart(raw, i + 2, idx, TRUE)
              ELSE ScanLineStart(raw, i + 1, idx, FALSE)
    ELSE FALSE

is_marker_line_start(raw, idx) ==
    LET breaks     == {p \in 1..(idx - 1) : raw[p] = "\n"}
        line_start == IF breaks = {} THEN 1
                      ELSE 1 + CHOOSE p \in breaks : \A q \in breaks : q <= p
    IN  ScanLineStart(raw, line_start, idx, FALSE)

RECURSIVE find_marker_line_from(_, _, _)
find_marker_line_from(raw, marker, start) ==
    LET idx == Find(raw, marker, start) IN
    IF idx = 0 THEN 0
    ELSE IF is_marker_line_start(raw, idx) THEN idx
    ELSE find_marker_line_from(raw, marker, idx + Len(marker))

find_marker_line(raw, marker) == find_marker_line_from(raw, marker, 1)

\* sanitize_terminal_output: escape sequences, BEL and CR are dropped.
RECURSIVE sanitize_terminal_output(_)
RECURSIVE SkipCsi(_)
SkipCsi(s) ==
    IF s = <<>> THEN <<>>
    ELSE IF IsCsiFinal(Head(s)) THEN sanitize_terminal_output(Tail(s))
    ELSE SkipCsi(Tail(s))

sanitize_terminal_output(s) ==
    IF s = <<>> THEN <<>>
    ELSE IF Head(s) = ESC
         THEN IF Len(s) >= 2 /\ s[2] = "["
              THEN SkipCsi(SubSeq(s, 3, Len(s)))
              ELSE sanitize_terminal_output(SubSeq(s, 3, Len(s)))
    ELSE IF Head(s) \in {"BEL", "\r"} THEN sanitize_terminal_output(Tail(s))
    ELSE <<Head(s)>> \o sanitize_terminal_output(Tail(s))

IsDigit(ch) == ch \in {"0", "1", "2", "3", "4", "5", "6", "7", "8", "9"}

DigitValue(ch) ==
    CASE ch = "0" -> 0 [] ch = "1" -> 1 [] ch = "2" -> 2 [] ch = "3" -> 3 [] ch = "4" -> 4
      [] ch = "5" -> 5 [] ch = "6" -> 6 [] ch = "7" -> 7 [] ch = "8" -> 8 [] ch = "9" -> 9

\* The leading "-" and digits of the exit text: `buf`.
RECURSIVE ExitDigits(_, _)
ExitDigits(s, buf) ==
    IF s = <<>> THEN buf
    ELSE IF Head(s) = "-" /\ buf = <<>> THEN ExitDigits(Tail(s), <<"-">>)
    ELSE IF IsDigit(Head(s)) THEN ExitDigits(Tail(s), Append(buf, Head(s)))
    ELSE buf

RECURSIVE DecimalValue(_)
DecimalValue(digits) ==
    IF digits = <<>> THEN 0
    ELSE 10 * DecimalValue(SubSeq(digits, 1, Len(digits) - 1)) + DigitValue(digits[Len(digits)])

\* `buf.parse::<i32>().ok()`: no exit text of the model leaves the range of i32.
parse_exit_code(value) ==
    LET buf == ExitDigits(TrimStart(sanitize_terminal_output(value)), <<>>) IN
    IF buf = <<>> \/ buf = <<"-">> THEN None
    ELSE IF Head(buf) = "-" THEN Some(0 - DecimalValue(Tail(buf)))
    ELSE Some(DecimalValue(buf))

\* None, or the captured text and the exit code.
extract_between_markers(raw) ==
    LET start_idx      == find_marker_line(raw, start_marker)
        after_marker   == start_idx + Len(start_marker)
        newline        == Find(raw, <<"\n">>, after_marker)
        start_line_end == IF newline = 0 THEN after_marker ELSE newline + 1
        end_idx        == find_marker_line_from(raw, end_marker_prefix, start_line_end)
        after_end      == end_idx + Len(end_marker_prefix)
        end_newline    == Find(raw, <<"\n">>, after_end)
        line_end       == IF end_newline = 0 THEN Len(raw) + 1 ELSE end_newline
    IN  IF start_idx = 0 THEN None
        ELSE IF end_idx = 0 THEN None
        ELSE Some([ captured  |-> SubSeq(raw, start_line_end, end_idx - 1),
                    exit_code |-> parse_exit_code(SubSeq(raw, after_end, line_end - 1)) ])

\* truncate_utf8 of text whose characters are one byte each.
truncate_utf8(value, max_len) ==
    IF Len(value) <= max_len THEN [text |-> value, truncated |-> FALSE]
    ELSE [text |-> SubSeq(value, 1, max_len), truncated |-> TRUE]

\* `raw_output.len() > max_bytes * 4`: the text is cut to begin at the start
\* marker, or to its last max_bytes * 2 bytes.
trim_raw_output(raw_output, max_bytes) ==
    IF Len(raw_output) <= max_bytes * 4 THEN raw_output
    ELSE IF Find(raw_output, start_marker, 1) # 0
         THEN SubSeq(raw_output, Find(raw_output, start_marker, 1), Len(raw_output))
    ELSE SubSeq(raw_output, Len(raw_output) - max_bytes * 2 + 1, Len(raw_output))

\* The streams of the shell: noise, the line of the start marker, the lines
\* of the body, the line of the end marker with the exit text, and a tail.
\* Noise and body may hold a marker that is not at the start of its line, as
\* the echo of the command block does.
Noises == { <<"x", "\n">>, <<"x", "_", "S", "\n">> }
MarkerLeads == { <<>>, <<" ">>, <<ESC, "[", "m">> }
Bodies == { <<>>, <<"h", "\n">>, <<"h", "\n", "h", "\n">>, <<"h", "_", "E", "1", "\n">> }
ExitTexts == { <<"0">>, <<"-", "1">>, <<"1", "0">>, <<>> }
Tails == { <<>>, <<"\n", "t">> }

Streams ==
    [noise : Noises, start_lead : MarkerLeads, body : Bodies, end_lead : {<<>>, <<" ">>},
     exit : ExitTexts, tail : Tails]

StreamText(st) ==
    st.noise \o st.start_lead \o start_marker \o <<"\n">> \o st.body \o
    st.end_lead \o end_marker_prefix \o st.exit \o st.tail

\* TerminalExecRequest.max_bytes: a small limit, and the default.
MaxBytes == {2, 24000}

\* exec runs the command in a session, whose log it reads, or detached, on a
\* pty of its own, whose reader it reads.
ExecModes == {"session", "detached"}

SetPty(pc, got, raw_output, input, found, exit_code, by_deadline, result) ==
    pty' = [pty EXCEPT !.pc = pc, !.got = got, !.raw_output = raw_output,
                       !.input = input, !.found = found, !.exit_code = exit_code,
                       !.by_deadline = by_deadline, !.result = result]

PtyUntouched ==
    UNCHANGED <<running, paused, state, seq, event, shown, ret, from, inputs, loops,
                bus_vars, llm_vars, ws, cmd, store, judge, mux, mtx, tlog, reg>>

\* One pass of the read loop that gets bytes: they are added to raw_output,
\* and the loop ends when both markers are found in it.  `input` is the text
\* given to extract_between_markers, and `found` tells whether it found them.
PtyRead(n) ==
    /\ pty.pc = "reading"
    /\ pty.got + n <= Len(pty.raw)
    /\ LET text  == pty.raw_output \o SubSeq(pty.raw, pty.got + 1, pty.got + n)
           found == extract_between_markers(text)
       IN  IF found # None
           THEN SetPty("finish", pty.got + n, found[1].captured, text, TRUE,
                       found[1].exit_code, FALSE, pty.result)
           ELSE SetPty("reading", pty.got + n, trim_raw_output(text, pty.max_bytes), text, FALSE, None, FALSE,
                       pty.result)
    /\ PtyUntouched

\* `while Instant::now() < deadline` ends the loop.
PtyDeadline ==
    /\ pty.pc = "reading"
    /\ SetPty("finish", pty.got, pty.raw_output, pty.input, FALSE, None, TRUE,
              pty.result)
    /\ PtyUntouched

\* read_until_markers_from_reader: `Ok(0) => break`, the shell has gone.
PtyEof ==
    /\ pty.pc = "reading"
    /\ pty.mode = "detached"
    /\ SetPty("finish", pty.got, pty.raw_output, pty.input, FALSE, None, FALSE,
              pty.result)
    /\ PtyUntouched

\* Output that is not blank makes a call that saw no exit code a success.
timeout_is_success_never(timed_out, raw_output) == FALSE

timeout_is_success(timed_out, raw_output) == timed_out /\ Trim(raw_output) # <<>>

\* The end of read_until_markers_from_log / _from_reader and of exec: the
\* ToolResult.
exec_result(raw_output, code, max_bytes) ==
    LET excerpt   == truncate_utf8(sanitize_terminal_output(raw_output), max_bytes)
        success   == timeout_is_success(code = None, excerpt.text)
        exit_code == IF success THEN Some(0) ELSE code
        timed_out == IF success THEN FALSE ELSE code = None
    IN  [ ok             |-> (IF exit_code = None THEN 1 ELSE exit_code[1]) = 0,
          stdout_excerpt |-> excerpt.text,
          stderr_excerpt |-> IF timed_out THEN Some(TimeoutText) ELSE None,
          exit_code      |-> exit_code,
          truncated      |-> excerpt.truncated ]

PtyFinish ==
    /\ pty.pc = "finish"
    /\ SetPty("done", pty.got, pty.raw_output, pty.input, pty.found, pty.exit_code,
              pty.by_deadline, Some(exec_result(pty.raw_output, pty.exit_code, pty.max_bytes)))
    /\ PtyUntouched

\* The command block is written, and exec starts to read.
PtyInit ==
    /\ KernelIdle
    /\ ws = NoResolve
    /\ cmd = NoCommand
    /\ store = NoStore
    /\ judge = NoJudge
    /\ mux = NoMux
    /\ mtx = NoMutex
    /\ tlog = NoLog
    /\ reg = NoRegistry
    /\ \E st \in Streams, mode \in ExecModes, max_bytes \in MaxBytes :
          pty = [ pc |-> "reading", stream |-> st, raw |-> StreamText(st), mode |-> mode,
                  max_bytes |-> max_bytes, got |-> 0, raw_output |-> <<>>,
                  input |-> <<>>, found |-> FALSE, exit_code |-> None, by_deadline |-> FALSE,
                  result |-> None ]

PtyNext ==
    \/ \E n \in 1..Len(pty.raw) : PtyRead(n)
    \/ PtyDeadline
    \/ PtyEof
    \/ PtyFinish

PtySpec == PtyInit /\ [][PtyNext]_vars

----------------------------------------------------------------------------
\* services/workspace.rs: the sandbox of paths.  A path is absolute and is
\* the sequence of its components; "." and ".." are components like names.

MaxPathLen == 4     \* components of a path given to a resolution

\* The file system: directories, files and one symbolic link, which stands
\* in the workspace and leads out of it.
Dirs ==
    { <<>>, <<"etc">>, <<"ws">>, <<"ws", "sub">>, <<"ws", "sub", "d">>, <<"ws2">> }
Files == { <<"etc", "passwd">>, <<"ws", "f">>, <<"ws2", "f">> }
Links == { [at |-> <<"ws", "out">>, to |-> <<"etc">>] }

\* WorkspaceState.root, which new and set_root store canonicalized.
Roots == { <<"ws">>, <<"ws", "sub">>, <<"ws", "sub", "d">> }

PathComponents == {"..", ".", "etc", "passwd", "sub", "new", "out", "ws2"}

\* The path inputs: relative or absolute.
PathInputs ==
    [ absolute : BOOLEAN,
      parts : UNION { [1..n -> PathComponents] : n \in 1..MaxPathLen } ]

EscapeText == "Path escapes workspace root"

PathOk(path) == [ok |-> TRUE, path |-> path, err |-> None]
PathErr(text) == [ok |-> FALSE, path |-> <<>>, err |-> Some(text)]

Parent(path) == IF path = <<>> THEN <<>> ELSE SubSeq(path, 1, Len(path) - 1)

\* Path::starts_with: whole components are compared.
starts_with(path, base) ==
    Len(path) >= Len(base) /\ SubSeq(path, 1, Len(base)) = base

\* fs::canonicalize from directory cur on: every component is looked up,
\* ".." goes to the parent of the directory reached, a link is followed.
RECURSIVE Walk(_, _)
Walk(cur, rest) ==
    IF rest = <<>> THEN PathOk(cur)
    ELSE LET c    == Head(rest)
             next == Append(cur, c)
         IN  IF c = "." THEN Walk(cur, Tail(rest))
             ELSE IF c = ".." THEN Walk(Parent(cur), Tail(rest))
             ELSE IF next \in Dirs THEN Walk(next, Tail(rest))
             ELSE IF next \in Files
                  THEN IF Tail(rest) = <<>> THEN PathOk(next) ELSE PathErr("Not a directory")
             ELSE IF \E l \in Links : l.at = next
                  THEN Walk(<<>>, (CHOOSE l \in Links : l.at = next).to \o Tail(rest))
             ELSE PathErr("No such file or directory")

canonicalize(path) == Walk(<<>>, path)

exists(path) == canonicalize(path).ok

canonicalize_or(path) == IF canonicalize(path).ok THEN canonicalize(path).path ELSE path

\* normalize_path_input trims the input and strips quotes around it: it
\* leaves these inputs as they are.
resolve_candidate(root, input) ==
    IF input.absolute THEN input.parts ELSE root \o input.parts

ensure_within_root(root, candidate) ==
    IF starts_with(candidate, canonicalize_or(root)) THEN PathOk(candidate)
    ELSE PathErr(EscapeText)

RECURSIVE NormalizeParts(_, _)
NormalizeParts(rest, parts) ==
    IF rest = <<>> THEN parts
    ELSE IF Head(rest) = "." THEN NormalizeParts(Tail(rest), parts)
    ELSE IF Head(rest) = ".." THEN NormalizeParts(Tail(rest), Parent(parts))
    ELSE NormalizeParts(Tail(rest), Append(parts, Head(rest)))

\* The path is returned as it came.
lexical_normalize_not(path) == path

lexical_normalize(path) == NormalizeParts(path, <<>>)

normalize_path_for_compare(path) == lexical_normalize(path)

ensure_within_root_lexical(root, candidate) ==
    IF starts_with(normalize_path_for_compare(candidate), normalize_path_for_compare(root))
    THEN PathOk(candidate)
    ELSE PathErr(EscapeText)

resolve_path(root, input) ==
    LET candidate == resolve_candidate(root, input)
        canonical == canonicalize(candidate)
    IN  IF ~canonical.ok THEN PathErr("Path not found")
        ELSE IF ~ensure_within_root(root, canonical.path).ok THEN PathErr(EscapeText)
        ELSE PathOk(canonical.path)

resolve_path_for_write(root, input) ==
    LET candidate  == resolve_candidate(root, input)
        normalized == lexical_normalize(candidate)
    IN  IF exists(candidate)
        THEN IF ~ensure_within_root(root, canonicalize(candidate).path).ok
             THEN PathErr(EscapeText)
             ELSE PathOk(candidate)
        ELSE IF ~ensure_within_root_lexical(canonicalize_or(root), normalized).ok
             THEN PathErr(EscapeText)
        ELSE PathOk(normalized)

WsUntouched ==
    UNCHANGED <<running, paused, state, seq, event, shown, ret, from, inputs, loops,
                bus_vars, llm_vars, pty, cmd, store, judge, mux, mtx, tlog, reg>>

\* A tool resolves the path to read it.
ResolveRead ==
    /\ ws.op = "none"
    /\ ws' = [ws EXCEPT !.op = "read", !.result = resolve_path(ws.root, ws.input)]
    /\ WsUntouched

\* A tool resolves the path to write it.
ResolveWrite ==
    /\ ws.op = "none"
    /\ ws' = [ws EXCEPT !.op = "write", !.result = resolve_path_for_write(ws.root, ws.input)]
    /\ WsUntouched

\* Any workspace root and any path input.
WsInit ==
    /\ KernelIdle
    /\ pty = NoExec
    /\ cmd = NoCommand
    /\ store = NoStore
    /\ judge = NoJudge
    /\ mux = NoMux
    /\ mtx = NoMutex
    /\ tlog = NoLog
    /\ reg = NoRegistry
    /\ \E root \in Roots, input \in PathInputs :
          ws = [root |-> root, input |-> input, op |-> "none", result |-> PathOk(<<>>)]

WsNext == ResolveRead \/ ResolveWrite

WsSpec == WsInit /\ [][WsNext]_vars

----------------------------------------------------------------------------
\* Runtime::execute and services/tools.rs: the actions that run a command.
\* A text is the sequence of its characters.

\* args.join(" ")
RECURSIVE join(_)
join(args) ==
    IF args = <<>> THEN <<>>
    ELSE IF Len(args) = 1 THEN args[1]
    ELSE args[1] \o <<" ">> \o join(Tail(args))

\* str::contains
contains(text, pattern) == Find(text, pattern, 1) # 0

\* The patterns of is_dangerous_command, in its order.
patterns ==
    << <<"r","m"," ","-","r","f"," ","/">>,
       <<"r","m"," ","-","r","f"," ","-","-","n","o","-","p","r","e","s","e","r","v","e",
         "-","r","o","o","t"," ","/">>,
       <<"d","e","l"," ","/","s">>,
       <<"r","d"," ","/","s"," ","/","q">>,
       <<"f","o","r","m","a","t">>,
       <<"s","h","u","t","d","o","w","n">>,
       <<"r","e","b","o","o","t">>,
       <<"p","o","w","e","r","o","f","f">>,
       <<"m","k","f","s">>,
       <<"r","e","g"," ","d","e","l","e","t","e">> >>

\* is_dangerous_command: the first pattern that the lowercased command line
\* contains, or None.
is_dangerous_command(program, args) ==
    LET joined == IF args = <<>> THEN ToLowercase(program)
                  ELSE ToLowercase(program) \o <<" ">> \o ToLowercase(join(args))
        hits == {i \in 1..Len(patterns) : contains(joined, patterns[i])}
    IN  IF hits = {} THEN None
        ELSE Some(patterns[CHOOSE i \in hits : \A j \in hits : i <= j])

\* run_command: the deny-list is checked first, and a command that passes is
\* spawned as a process.
run_command(program, args) ==
    LET reason == is_dangerous_command(program, args)
    IN  IF reason # None THEN [outcome |-> "blocked", reason |-> reason]
        ELSE [outcome |-> "spawned", reason |-> None]

\* The programs and the argument words of the command actions.
Programs == { <<"r","m">>, <<"R","M">>, <<"l","s">>, <<"m","k","f","s">> }
ArgWords == { <<"-","r","f">>, <<"/">>, <<"/","x">>, <<"f","o","r","m","a","t">> }
ArgLists == {<<>>} \cup {<<a>> : a \in ArgWords} \cup {<<a, b>> : a \in ArgWords, b \in ArgWords}
CommandKinds == {"terminal.exec", "terminal.run", "tests.run"}

\* The cwd of the action: absent, one that resolve_path accepts, or one that
\* it refuses.  A tests.run action has none.
Cwds == {"none", "inside", "outside"}

SetCmd(outcome, reason) ==
    cmd' = [cmd EXCEPT !.pc = "done", !.outcome = outcome, !.reason = reason]

CmdUntouched ==
    UNCHANGED <<running, paused, state, seq, event, shown, ret, from, inputs, loops,
                bus_vars, llm_vars, pty, ws, store, judge, mux, mtx, tlog, reg>>

\* Action::TerminalExec: the cwd is resolved, and exec_interactive writes the
\* command to the shell of the session.  The cmd of the action is the
\* command line `program args`.
ExecuteTerminalExec ==
    /\ cmd.pc = "ready"
    /\ cmd.kind = "terminal.exec"
    /\ IF cmd.cwd = "outside" THEN SetCmd("error", None)
       ELSE SetCmd("shell", None)
    /\ CmdUntouched

\* Action::TerminalRun: the cwd is resolved, and run_command is called.
ExecuteTerminalRun ==
    /\ cmd.pc = "ready"
    /\ cmd.kind = "terminal.run"
    /\ IF cmd.cwd = "outside" THEN SetCmd("error", None)
       ELSE LET r == run_command(cmd.program, cmd.args)
            IN  SetCmd(r.outcome, r.reason)
    /\ CmdUntouched

\* Action::TestsRun: run_command is called in the workspace root.
ExecuteTestsRun ==
    /\ cmd.pc = "ready"
    /\ cmd.kind = "tests.run"
    /\ LET r == run_command(cmd.program, cmd.args)
       IN  SetCmd(r.outcome, r.reason)
    /\ CmdUntouched

\* Any command action.
CmdInit ==
    /\ KernelIdle
    /\ pty = NoExec
    /\ ws = NoResolve
    /\ store = NoStore
    /\ judge = NoJudge
    /\ mux = NoMux
    /\ mtx = NoMutex
    /\ tlog = NoLog
    /\ reg = NoRegistry
    /\ \E kind \in CommandKinds, program \in Programs, args \in ArgLists, cwd \in Cwds :
          /\ kind = "tests.run" => cwd = "none"
          /\ cmd = [ pc |-> "ready", kind |-> kind, program |-> program, args |-> args,
                     cwd |-> cwd, outcome |-> "none", reason |-> None ]

CmdNext == ExecuteTerminalExec \/ ExecuteTerminalRun \/ ExecuteTestsRun

CmdSpec == CmdInit /\ [][CmdNext]_vars

----------------------------------------------------------------------------
\* The whole RunState: every field that start, user_input, the run loop and
\* apply_observation write.  A text is the sequence of its characters.

MaxObs == 7         \* observations applied
MaxTurns == 1       \* user messages taken, and steps completed

\* `if state.recent_observations.len() > 6`
RingCap == 6

\* `trim_to(&observation.summary, 2000)`
SummaryMax == 2000

RunState_whole(run_id) ==
    [ run_id              |-> run_id,
      agent_state         |-> "Idle",
      turn                |-> 0,
      messages            |-> <<>>,
      session_id          |-> None,
      task_id             |-> None,
      plan                |-> None,
      tasks               |-> None,
      budget              |-> [max_steps |-> DefaultMaxSteps, used_steps |-> 0],
      recent_observations |-> <<>>,
      auto_run            |-> TRUE,
      last_error          |-> None ]

\* trim_to: the first max_len characters.
trim_to(value, max_len) ==
    IF Len(value) <= max_len THEN value ELSE SubSeq(value, 1, max_len)

\* `format!("{}: {}", action_id(action), summary)`
observation_entry(id, summary) == id \o <<":", " ">> \o summary

\* push, and remove(0) when the ring holds more than six.
ring_push_keeping_all(ring, entry) == Append(ring, entry)

ring_push(ring, entry) ==
    LET pushed == Append(ring, entry)
    IN  IF Len(pushed) > RingCap THEN Tail(pushed) ELSE pushed

\* `plan.steps.iter_mut().find(|step| step.id == action_id(action))`: the
\* first step with the id is marked done.
mark_step_done(plan, id) ==
    IF plan = None THEN plan
    ELSE LET steps == plan[1].steps
             hits == {i \in 1..Len(steps) : steps[i].id = id}
         IN  IF hits = {} THEN plan
             ELSE LET i == CHOOSE x \in hits : \A y \in hits : x <= y
                  IN  Some([plan[1] EXCEPT !.steps[i].status = "done", !.steps[i].done = TRUE])

\* `tasks.items.iter_mut().find(|item| item.id == action_id(action))`
mark_task_done(tasks, id) ==
    IF tasks = None THEN tasks
    ELSE LET items == tasks[1].items
             hits == {i \in 1..Len(items) : items[i].id = id}
         IN  IF hits = {} THEN tasks
             ELSE LET i == CHOOSE x \in hits : \A y \in hits : x <= y
                  IN  Some([tasks[1] EXCEPT !.items[i].status = "done"])

\* The closure of apply_observation, on the whole RunState.
apply_observation_whole(st, action, observation) ==
    LET s1 == IF action.type = "plan.update" THEN [st EXCEPT !.plan = Some(action.plan)] ELSE st
        s2 == IF action.type = "task.update" THEN [s1 EXCEPT !.tasks = Some(action.tasks)] ELSE s1
        summary == trim_to(observation.summary, SummaryMax)
        s3 == IF summary # <<>>
              THEN [s2 EXCEPT !.recent_observations =
                                  ring_push(@, observation_entry(action.id, summary))]
              ELSE s2
    IN  IF observation.requires_user
        THEN [s3 EXCEPT !.agent_state = "AwaitingUser",
                        !.last_error = Some(observation.summary)]
        ELSE IF observation.ok
        THEN [s3 EXCEPT !.plan = mark_step_done(@, action.id),
                        !.tasks = mark_task_done(@, action.id)]
        ELSE [s3 EXCEPT !.agent_state = "Error",
                        !.last_error = Some(observation.summary)]

\* The closure of start: a new RunState that takes plan, tasks, messages, turn
\* and task_id from the one it replaces, and session_id, max_steps and
\* task_id from the request.
start_whole_dropping_turn(st, run_id, request) ==
    LET fresh == RunState_whole(run_id) IN
    [fresh EXCEPT !.plan = st.plan,
                  !.tasks = st.tasks,
                  !.messages = st.messages,
                  !.task_id = IF request.task_id # None THEN request.task_id ELSE st.task_id,
                  !.agent_state = "Running",
                  !.session_id = request.session_id,
                  !.budget.max_steps = IF request.max_steps = None THEN @
                                       ELSE request.max_steps[1]]

start_whole(st, run_id, request) ==
    LET fresh == RunState_whole(run_id) IN
    [fresh EXCEPT !.plan = st.plan,
                  !.tasks = st.tasks,
                  !.messages = st.messages,
                  !.turn = st.turn,
                  !.task_id = IF request.task_id # None THEN request.task_id ELSE st.task_id,
                  !.agent_state = "Running",
                  !.session_id = request.session_id,
                  !.budget.max_steps = IF request.max_steps = None THEN @
                                       ELSE request.max_steps[1]]

\* The closure of user_input, which also counts the turn of a message it
\* pushes.
user_input_whole(st, content) ==
    LET u == user_input_update(st, content)
    IN  IF u.control_stop THEN u.state
        ELSE [u.state EXCEPT !.turn = saturating_add(@, 1)]

\* The actions and the observations of the model: two tools with a summary,
\* one without, and the plan and the task list that the model sets.
StepA1 == <<"a", "1">>
StepA2 == <<"a", "2">>
PlanOfModel == [version |-> 1, goal |-> "goal",
                steps |-> <<[id |-> StepA1, title |-> "one", status |-> "pending", done |-> FALSE]>>]
TasksOfModel == [version |-> 1, items |-> <<[id |-> StepA2, status |-> "pending"]>>]

Applied ==
    { [action |-> [type |-> "fs.read", id |-> StepA1],
       observation |-> [ok |-> TRUE, summary |-> <<"o", "k">>, requires_user |-> FALSE]],
      [action |-> [type |-> "terminal.run", id |-> StepA2],
       observation |-> [ok |-> FALSE, summary |-> <<"n", "o">>, requires_user |-> FALSE]],
      [action |-> [type |-> "terminal.run", id |-> StepA2],
       observation |-> [ok |-> TRUE, summary |-> <<>>, requires_user |-> FALSE]],
      [action |-> [type |-> "plan.update", id |-> StepA2, plan |-> PlanOfModel],
       observation |-> [ok |-> TRUE, summary |-> <<>>, requires_user |-> FALSE]],
      [action |-> [type |-> "task.update", id |-> StepA1, tasks |-> TasksOfModel],
       observation |-> [ok |-> TRUE, summary |-> <<>>, requires_user |-> TRUE]] }

\* KernelStartRequest
WholeRequests ==
    { [session_id |-> None, max_steps |-> None, task_id |-> None],
      [session_id |-> Some("s1"), max_steps |-> Some(1), task_id |-> Some("t2")] }

StoreUntouched ==
    UNCHANGED <<running, paused, state, seq, event, shown, ret, from, inputs, loops,
                bus_vars, llm_vars, pty, ws, cmd, judge, mux, mtx, tlog, reg>>

\* start: refused while a run loop is alive; otherwise the run state is
\* replaced.  `arrived` is the list of the entries pushed since, and `fresh`
\* tells that the last call was a start that replaced the run state.
StoreStart ==
    /\ \E request \in WholeRequests :
          IF start_rejects(store.running)
          THEN store' = [store EXCEPT !.fresh = FALSE]
          ELSE store' = [store EXCEPT !.fresh = TRUE,
                                      !.running = TRUE,
                                      !.st = start_whole(@, new_run_id(@.run_id), request),
                                      !.arrived = <<>>]
    /\ StoreUntouched

\* The run loop, or a loop of an earlier run that is still alive, applies the
\* observation of an action.
StoreApply ==
    /\ store.running
    /\ store.applied < MaxObs
    /\ \E a \in Applied :
          LET summary == trim_to(a.observation.summary, SummaryMax) IN
          store' = [store EXCEPT !.fresh = FALSE,
                                 !.applied = @ + 1,
                                 !.st = apply_observation_whole(@, a.action, a.observation),
                                 !.arrived = IF summary = <<>> THEN @
                                             ELSE Append(@, observation_entry(a.action.id, summary))]
    /\ StoreUntouched

\* The run loop ends a step: used_steps is raised by one.
StoreStepComplete ==
    /\ store.running
    /\ store.st.budget.used_steps < store.st.budget.max_steps
    /\ store.st.budget.used_steps < MaxTurns
    /\ store' = [store EXCEPT !.fresh = FALSE,
                              !.st.budget.used_steps = saturating_add(@, 1)]
    /\ StoreUntouched

\* user_input: the message is pushed and a run loop is spawned when none is
\* alive.
StoreUserInput ==
    /\ store.st.turn < MaxTurns
    /\ \E content \in {<<"g", "o">>, <<"s", "t", "o", "p">>} :
          store' = [store EXCEPT !.fresh = FALSE,
                                 !.st = user_input_whole(@, content),
                                 !.running = IF is_stop_command(content) THEN @ ELSE TRUE]
    /\ StoreUntouched

\* The run loop ends: `self.running.store(false)`.
StoreLoopExit ==
    /\ store.running
    /\ store' = [store EXCEPT !.fresh = FALSE, !.running = FALSE]
    /\ StoreUntouched

\* KernelManager::new: the run state of run "default", no run loop.
StoreInit ==
    /\ KernelIdle
    /\ pty = NoExec
    /\ ws = NoResolve
    /\ cmd = NoCommand
    /\ judge = NoJudge
    /\ mux = NoMux
    /\ mtx = NoMutex
    /\ tlog = NoLog
    /\ reg = NoRegistry
    /\ store = [ fresh |-> FALSE, running |-> FALSE, st |-> RunState_whole("default"),
                 arrived |-> <<>>, applied |-> 0 ]

StoreNext ==
    \/ StoreStart
    \/ StoreApply
    \/ StoreStepComplete
    \/ StoreUserInput
    \/ StoreLoopExit

StoreSpec == StoreInit /\ [][StoreNext]_vars

----------------------------------------------------------------------------
\* services/judge.rs: JudgeEngine::evaluate_rules.

MaxRules == 3       \* rules of the judge

\* The statuses an executor returns; "timeout" is one that evaluate_rules
\* does not know.
OutcomeStatuses == {"pass", "fail", "error", "pending", "skip", "timeout"}

\* JudgeRuleOutcome: the reason and the evidence that come with a status.
OutcomeOf(status) ==
    [ status   |-> status,
      reason   |-> IF status \in {"fail", "error", "skip"} THEN Some("why " \o status) ELSE None,
      evidence |-> IF status \in {"pass", "fail"} THEN <<"seen " \o status>> ELSE <<>> ]

\* JudgeRule: the i-th rule of the list.
RuleAt(i) == [id |-> i, rule_type |-> "command"]

\* JudgeContext.last_error
LastErrors == {None, Some("why fail"), Some("late")}

\* `if saw_fail .. else if saw_pending .. else if saw_pass .. else if
\* saw_skip .. else "pending"`
overall_status_pass_first(saw_pass, saw_fail, saw_pending, saw_skip) ==
    IF saw_pass THEN "pass"
    ELSE IF saw_fail THEN "fail"
    ELSE IF saw_pending THEN "pending"
    ELSE IF saw_skip THEN "skip"
    ELSE "pending"

overall_status(saw_pass, saw_fail, saw_pending, saw_skip) ==
    IF saw_fail THEN "fail"
    ELSE IF saw_pending THEN "pending"
    ELSE IF saw_pass THEN "pass"
    ELSE IF saw_skip THEN "skip"
    ELSE "pending"

\* The loop over the rules from rule i on; acc holds checks, reasons,
\* evidence and the four flags.
RECURSIVE JudgeLoop(_, _, _, _)
JudgeLoop(rules, outcomes, i, acc) ==
    IF i > Len(rules) THEN acc
    ELSE LET outcome == outcomes[i]
             status == outcome.status
             known == status \in {"pass", "fail", "error", "pending", "skip"}
         IN  JudgeLoop(rules, outcomes, i + 1,
                [ saw_pass    |-> acc.saw_pass \/ status = "pass",
                  saw_fail    |-> acc.saw_fail \/ status \in {"fail", "error"},
                  saw_pending |-> acc.saw_pending \/ status = "pending" \/ ~known,
                  saw_skip    |-> acc.saw_skip \/ status = "skip",
                  reasons     |-> IF outcome.reason # None /\ status \in {"fail", "error"}
                                  THEN Append(acc.reasons, outcome.reason[1])
                                  ELSE acc.reasons,
                  evidence    |-> acc.evidence \o outcome.evidence,
                  checks      |-> Append(acc.checks,
                                         [ id |-> rules[i].id, rule_type |-> rules[i].rule_type,
                                           status |-> status, reason |-> outcome.reason,
                                           evidence |-> outcome.evidence ]) ])

\* evaluate_rules; outcomes[i] is what exec returns for rule i.
evaluate_rules(rules, context, outcomes) ==
    IF rules = <<>>
    THEN [status |-> "skip", reasons |-> <<>>, evidence |-> <<>>, checks |-> <<>>]
    ELSE LET acc == JudgeLoop(rules, outcomes, 1,
                        [ saw_pass |-> FALSE, saw_fail |-> FALSE, saw_pending |-> FALSE,
                          saw_skip |-> FALSE, reasons |-> <<>>, evidence |-> <<>>,
                          checks |-> <<>> ])
             status == overall_status(acc.saw_pass, acc.saw_fail, acc.saw_pending, acc.saw_skip)
             error == context.last_error
             reasons == IF /\ status # "pass"
                           /\ error # None
                           /\ ~\E k \in 1..Len(acc.reasons) : acc.reasons[k] = error[1]
                        THEN Append(acc.reasons, error[1])
                        ELSE acc.reasons
         IN  [ status |-> status, reasons |-> reasons, evidence |-> acc.evidence,
               checks |-> acc.checks ]

JudgeUntouched ==
    UNCHANGED <<running, paused, state, seq, event, shown, ret, from, inputs, loops,
                bus_vars, llm_vars, pty, ws, cmd, store, mux, mtx, tlog, reg>>

\* The judge evaluates its rules.
JudgeEvaluate ==
    /\ judge.pc = "ready"
    /\ judge' = [judge EXCEPT !.pc = "done",
                              !.result = evaluate_rules(judge.rules, judge.context,
                                                        judge.outcomes)]
    /\ JudgeUntouched

\* Any list of rules, any outcome of each, any last_error.
JudgeInit ==
    /\ KernelIdle
    /\ pty = NoExec
    /\ ws = NoResolve
    /\ cmd = NoCommand
    /\ store = NoStore
    /\ mux = NoMux
    /\ mtx = NoMutex
    /\ tlog = NoLog
    /\ reg = NoRegistry
    /\ \E n \in 0..MaxRules :
       \E statuses \in [1..n -> OutcomeStatuses], last_error \in LastErrors :
          judge = [ pc |-> "ready",
                    rules |-> [i \in 1..n |-> RuleAt(i)],
                    outcomes |-> [i \in 1..n |-> OutcomeOf(statuses[i])],
                    context |-> [iteration |-> 1, last_error |-> last_error],
                    result |-> None ]

JudgeNext == JudgeEvaluate

JudgeSpec == JudgeInit /\ [][JudgeNext]_vars

----------------------------------------------------------------------------
\* services/pty.rs: exec_in_session and write on one session.  The writer of
\* a session is reached only through the sessions map, under its mutex.

MaxCalls == 2       \* calls of each caller

\* Two callers of exec and one of write.
Callers == {"exec1", "exec2", "write"}

\* What a call writes, piece by piece as write_all hands it to the pty: the
\* command block of build_command_block (start marker, command, end marker),
\* or the decoded data of a write request.
BlockOf(t) ==
    IF t = "write" THEN <<"data1", "data2">>
    ELSE <<"start_cmd", "command", "end_cmd">>

Free == "free"

\* Mutex::lock returns when no one holds the mutex.
lock_granted_always(lock) == TRUE

lock_granted(lock) == lock = Free

MuxUntouched ==
    UNCHANGED <<running, paused, state, seq, event, shown, ret, from, inputs, loops,
                bus_vars, llm_vars, pty, ws, cmd, store, judge, mtx, tlog, reg>>

\* A caller enters exec_in_session or write; write decodes its data.
MuxCall(t) ==
    /\ mux.callers[t].pc = "idle"
    /\ mux.callers[t].call < MaxCalls
    /\ mux' = [mux EXCEPT !.callers[t].pc = "called", !.callers[t].call = @ + 1]
    /\ MuxUntouched

\* `self.sessions.lock()` and `sessions.get_mut(&session_id)`: with no such
\* session the call returns the error and the guard is dropped.
MuxLock(t) ==
    /\ mux.callers[t].pc = "called"
    /\ lock_granted(mux.lock)
    /\ IF mux.alive
       THEN mux' = [mux EXCEPT !.lock = t, !.callers[t].pc = "writing",
                               !.callers[t].written = 0]
       ELSE mux' = [mux EXCEPT !.callers[t].pc = "idle", !.callers[t].ok = FALSE]
    /\ MuxUntouched

\* write_all: the next piece of the block goes to the pty.
MuxWrite(t) ==
    /\ mux.callers[t].pc = "writing"
    /\ mux.callers[t].written < Len(BlockOf(t))
    /\ LET k == mux.callers[t].written + 1 IN
       mux' = [mux EXCEPT !.callers[t].written = k,
                          !.input = Append(@, [caller |-> t, call |-> mux.callers[t].call,
                                               piece |-> k])]
    /\ MuxUntouched

\* The block is written (exec flushes the writer) and the guard is dropped.
MuxUnlock(t) ==
    /\ mux.callers[t].pc = "writing"
    /\ mux.callers[t].written = Len(BlockOf(t))
    /\ mux' = [mux EXCEPT !.lock = Free,
                          !.callers[t].pc = "idle", !.callers[t].ok = TRUE]
    /\ MuxUntouched

\* kill: the session is taken out of the map under the lock.
MuxKill ==
    /\ mux.alive
    /\ lock_granted(mux.lock)
    /\ mux' = [mux EXCEPT !.alive = FALSE]
    /\ MuxUntouched

\* A session that is alive, and no caller.
MuxInit ==
    /\ KernelIdle
    /\ pty = NoExec
    /\ ws = NoResolve
    /\ cmd = NoCommand
    /\ store = NoStore
    /\ judge = NoJudge
    /\ mtx = NoMutex
    /\ tlog = NoLog
    /\ reg = NoRegistry
    /\ mux = [ lock |-> Free, alive |-> TRUE, input |-> <<>>,
               callers |-> [t \in Callers |->
                               [pc |-> "idle", call |-> 0, written |-> 0, ok |-> TRUE]] ]

MuxNext ==
    \/ \E t \in Callers : MuxCall(t)
    \/ \E t \in Callers : MuxLock(t)
    \/ \E t \in Callers : MuxWrite(t)
    \/ \E t \in Callers : MuxUnlock(t)
    \/ MuxKill

MuxSpec == MuxInit /\ [][MuxNext]_vars

----------------------------------------------------------------------------
\* The mutex of the run state (KernelManager.state).  update_state,
\* snapshot_agent_state, snapshot and the block in start lock it, run a
\* closure and drop the guard.  Here each of them is two steps, the lock and
\* the closure with the unlock, and a decision call and a tool dispatch are
\* two steps each: the call and its return.

MaxCtl == 3         \* control calls
MaxFlights == 2     \* decision calls and tool dispatches begun

ControlOps == {"start", "pause", "resume", "stop", "continue_run", "user_input"}

\* The places where the run loop asks for the lock.
LoopLocks == {"snapshot", "budget", "budget_emit", "decided", "decided_emit", "act",
              "apply", "step", "step_emit"}

\* A decision call or a tool dispatch is under way.
InFlight_pcs == {"deciding", "dispatching"}

\* The MutexGuard is dropped when update_state or the snapshot returns.
holder_after_closure_kept(who, next) == IF next \in InFlight_pcs THEN who ELSE Free

holder_after_closure(who, next) == Free

\* The closure of the run loop at pc: the run state it leaves.
loop_closure(pc, st, outcome) ==
    CASE pc = "budget" -> budget_update(st)
      [] pc = "decided" -> IF outcome = "error" THEN decide_error(st, ParseErrText)
                           ELSE [st EXCEPT !.agent_state = "Finished"]
      [] pc = "apply" -> apply_observation(st, outcome)
      [] pc = "step" -> step_complete(st)
      [] OTHER -> st

\* Where the run loop goes after the closure at pc.
loop_after(pc, st) ==
    CASE pc = "snapshot" -> IF st.agent_state # "Running" THEN "exit"
                            ELSE IF budget_reached(st.budget) THEN "budget"
                            ELSE "deciding"
      [] pc = "budget" -> "budget_emit"
      [] pc = "budget_emit" -> "exit"
      [] pc = "decided" -> "decided_emit"
      [] pc = "decided_emit" -> "exit"
      [] pc = "act" -> IF st.agent_state # "Running" THEN "exit" ELSE "dispatching"
      [] pc = "apply" -> "step"
      [] pc = "step" -> "step_emit"
      [] pc = "step_emit" -> "top"

\* The closure of a control call: the run state it leaves.
ctl_closure(op, st) ==
    CASE op = "start" -> start_state(st, new_run_id(st.run_id), None)
      [] op = "pause" -> pause_update(st)
      [] op = "resume" -> resume_update(st)
      [] op = "stop" -> stop_update(st)
      [] op = "continue_run" -> continue_update(st)
      [] op = "user_input" -> user_input_update(st, <<"g", "o">>).state

\* should_spawn of a control call.
ctl_should_spawn(op, st) ==
    CASE op = "start" -> TRUE
      [] op = "resume" -> resume_should_spawn(st)
      [] op = "continue_run" -> continue_should_spawn(st)
      [] op = "user_input" -> TRUE
      [] OTHER -> FALSE

LockUntouched ==
    UNCHANGED <<running, paused, state, seq, event, shown, ret, from, inputs, loops,
                bus_vars, llm_vars, pty, ws, cmd, store, judge, mux, tlog, reg>>

\* The top of the loop: it sleeps while paused.
LkLoopTop ==
    /\ mtx.loop.pc = "top"
    /\ mtx.flights < MaxFlights
    /\ ~loop_sleeps(mtx.paused)
    /\ mtx' = [mtx EXCEPT !.loop.pc = "snapshot"]
    /\ LockUntouched

\* `self.state.lock()` in the run loop.
LkLoopLock ==
    /\ mtx.loop.pc \in LoopLocks
    /\ ~mtx.loop.held
    /\ lock_granted(mtx.holder)
    /\ mtx' = [mtx EXCEPT !.holder = "loop", !.loop.held = TRUE]
    /\ LockUntouched

\* The closure runs and the guard is dropped; a decision call or a dispatch
\* begins when the loop goes on to one.
LkLoopClosure ==
    /\ mtx.loop.held
    /\ LET st == loop_closure(mtx.loop.pc, mtx.st, mtx.loop.outcome)
           next == loop_after(mtx.loop.pc, st)
       IN  mtx' = [mtx EXCEPT !.st = st,
                              !.holder = holder_after_closure("loop", next),
                              !.loop.held = FALSE,
                              !.loop.pc = next,
                              !.flights = IF next \in InFlight_pcs THEN @ + 1 ELSE @]
    /\ LockUntouched

\* The decision call returns.
LkDecideReturn ==
    /\ mtx.loop.pc = "deciding"
    /\ \E outcome \in {"error", "finished", "actions"} :
          /\ outcome = "actions" => mtx.flights < MaxFlights
          /\ mtx' = [mtx EXCEPT !.loop.pc = IF outcome = "actions" THEN "act" ELSE "decided",
                             !.loop.outcome = outcome]
    /\ LockUntouched

\* The dispatch returns an observation.
LkDispatchReturn ==
    /\ mtx.loop.pc = "dispatching"
    /\ \E outcome \in {"ok", "failed"} :
          mtx' = [mtx EXCEPT !.loop.pc = "apply", !.loop.outcome = outcome]
    /\ LockUntouched

\* The run loop ends: `self.running.store(false)`.
LkLoopExit ==
    /\ mtx.loop.pc = "exit"
    /\ mtx' = [mtx EXCEPT !.loop.pc = "none", !.running = FALSE]
    /\ LockUntouched

\* A control call arrives and stores the pause flag; start swaps the running
\* flag and returns an error when a loop is alive.  `during` and `flight`
\* tell where the run loop was.
LkCall(op) ==
    /\ mtx.ctl.pc = "idle"
    /\ mtx.ctl.calls < MaxCtl
    /\ LET refused == op = "start" /\ start_rejects(mtx.running) IN
       mtx' = [mtx EXCEPT !.ctl = [ pc |-> IF refused THEN "done" ELSE "called",
                                    op |-> op, calls |-> @.calls + 1,
                                    during |-> mtx.loop.pc, flight |-> mtx.flights,
                                    spawn |-> FALSE ],
                          !.running = IF op = "start" THEN TRUE ELSE @,
                          !.paused = CASE op = "pause" -> TRUE
                                       [] op \in {"resume", "stop", "continue_run"} -> FALSE
                                       [] OTHER -> @]
    /\ LockUntouched

\* `self.state.lock()` in a control call: for its closure, and then for the
\* snapshot of emit_state.
LkCtlLock ==
    /\ mtx.ctl.pc \in {"called", "emit"}
    /\ lock_granted(mtx.holder)
    /\ mtx' = [mtx EXCEPT !.holder = "ctl",
                          !.ctl.pc = IF @ = "called" THEN "closure" ELSE "snapshot"]
    /\ LockUntouched

\* The closure of the control call runs and the guard is dropped.
LkCtlClosure ==
    /\ mtx.ctl.pc = "closure"
    /\ mtx' = [mtx EXCEPT !.st = ctl_closure(mtx.ctl.op, @),
                          !.holder = holder_after_closure("ctl", "emit"),
                          !.ctl.pc = "emit",
                          !.ctl.spawn = ctl_should_spawn(mtx.ctl.op, mtx.st)]
    /\ LockUntouched

\* The snapshot of emit_state is taken and the guard is dropped; the call
\* spawns a run loop when it should and none is alive, and returns.
LkCtlDone ==
    /\ mtx.ctl.pc = "snapshot"
    /\ LET spawns == mtx.ctl.spawn /\ (mtx.ctl.op = "start" \/ ~mtx.running) IN
       mtx' = [mtx EXCEPT !.holder = holder_after_closure("ctl", "done"),
                          !.ctl.pc = "done",
                          !.running = IF mtx.ctl.spawn THEN TRUE ELSE @,
                          !.loop = IF spawns
                                   THEN [pc |-> "top", held |-> FALSE, outcome |-> "ok"]
                                   ELSE @]
    /\ LockUntouched

\* The caller has its answer.
LkReturn ==
    /\ mtx.ctl.pc = "done"
    /\ mtx' = [mtx EXCEPT !.ctl.pc = "idle"]
    /\ LockUntouched

\* The kernel as constructed.
LockInit ==
    /\ KernelIdle
    /\ pty = NoExec
    /\ ws = NoResolve
    /\ cmd = NoCommand
    /\ store = NoStore
    /\ judge = NoJudge
    /\ mux = NoMux
    /\ tlog = NoLog
    /\ reg = NoRegistry
    /\ mtx = [ holder |-> Free, running |-> FALSE, paused |-> FALSE,
               st |-> RunState_new("default"), flights |-> 0,
               loop |-> [pc |-> "none", held |-> FALSE, outcome |-> "ok"],
               ctl |-> [ pc |-> "idle", op |-> "stop", calls |-> 0, during |-> "none",
                         flight |-> 0, spawn |-> FALSE ] ]

LockNext ==
    \/ LkLoopTop
    \/ LkLoopLock
    \/ LkLoopClosure
    \/ LkDecideReturn
    \/ LkDispatchReturn
    \/ LkLoopExit
    \/ \E op \in ControlOps : LkCall(op)
    \/ LkCtlLock
    \/ LkCtlClosure
    \/ LkCtlDone
    \/ LkReturn

LockSpec == LockInit /\ [][LockNext]_vars

\* A caller that waits for a free mutex gets it, a closure under way comes to
\* its end, and the run loop goes on between its calls; nothing says that a
\* decision call or a dispatch ever returns.
LockLive ==
    /\ LockSpec
    /\ WF_vars(LkCtlLock)
    /\ WF_vars(LkCtlClosure)
    /\ WF_vars(LkCtlDone)
    /\ WF_vars(LkLoopLock)
    /\ WF_vars(LkLoopClosure)

----------------------------------------------------------------------------
\* services/pty.rs: exec_in_session against the reader thread of the session.
\* The reader thread appends what the shell produces to the transcript log
\* without taking any lock; the call records the length of the log, writes its
\* command block, and then searches the log from the recorded length on.

\* Output of earlier commands that the reader thread has already appended.
LoggedBefore == { <<>>, <<"o", "\n">> }

\* Output of earlier commands that it has still to append.
OldOutputs == { <<>>, <<"o", "\n">>, <<"o", "\n", "o">> }

\* What the shell produces for the command block: the echo of the block (the
\* noise of the stream), the two marker lines and the body between them.
LogStreams ==
    {st \in Streams : /\ st.start_lead = <<>>
                      /\ st.end_lead = <<>>
                      /\ st.exit = <<"0">>
                      /\ st.tail = <<>>}

\* `request.max_bytes.unwrap_or(24000).min(200_000)`: no limit at all, a
\* small limit, and the default.
LogMaxBytes == {0} \cup MaxBytes

\* `.and_then(|file| file.metadata()).map(|meta| meta.len()).unwrap_or(0)`
log_len(log_file, opened) == IF opened THEN Len(log_file) ELSE 0

\* `file.seek(SeekFrom::Start(start_pos))`
seek_start(start_pos, len) == start_pos

LogUntouched ==
    UNCHANGED <<running, paused, state, seq, event, shown, ret, from, inputs, loops,
                bus_vars, llm_vars, pty, ws, cmd, store, judge, mux, mtx, reg>>

\* Under the sessions lock: the length of the log is read.
LogOffset(opened) ==
    /\ tlog.pc = "offset"
    /\ tlog' = [tlog EXCEPT !.pc = "write", !.start_pos = log_len(tlog.log, opened)]
    /\ LogUntouched

\* Still under the lock: write_all and flush of the command block.  The shell
\* will produce its reply after everything it has still to produce.
LogWrite ==
    /\ tlog.pc = "write"
    /\ tlog' = [tlog EXCEPT !.pc = "open", !.sent = TRUE,
                            !.reply_from = Len(tlog.log) + Len(tlog.todo),
                            !.todo = tlog.todo \o StreamText(tlog.stream)]
    /\ LogUntouched

\* spawn_reader_thread: one read of the pty and its `file.write_all(bytes)`.
LogDrain(n) ==
    /\ tlog.pc # "none"
    /\ n <= Len(tlog.todo)
    /\ tlog' = [tlog EXCEPT !.log = tlog.log \o SubSeq(tlog.todo, 1, n),
                            !.todo = SubSeq(tlog.todo, n + 1, Len(tlog.todo))]
    /\ LogUntouched

\* read_until_markers_from_log: the log is opened and the search is placed.
LogOpen(opened) ==
    /\ tlog.pc = "open"
    /\ IF opened
       THEN tlog' = [tlog EXCEPT !.pc = "reading",
                                 !.pos = seek_start(tlog.start_pos, Len(tlog.log)),
                                 !.read_from = seek_start(tlog.start_pos, Len(tlog.log))]
       ELSE tlog' = [tlog EXCEPT !.pc = "failed"]
    /\ LogUntouched

\* One `file.read` that returns bytes, with the marker test and the cut of
\* raw_output that follow it.
LogRead(n) ==
    /\ tlog.pc = "reading"
    /\ tlog.pos + n <= Len(tlog.log)
    /\ LET text  == tlog.raw_output \o SubSeq(tlog.log, tlog.pos + 1, tlog.pos + n)
           found == extract_between_markers(text)
       IN  IF found # None
           THEN tlog' = [tlog EXCEPT !.pc = "done", !.pos = tlog.pos + n, !.found = TRUE,
                                     !.raw_output = found[1].captured]
           ELSE tlog' = [tlog EXCEPT !.pos = tlog.pos + n,
                                     !.raw_output = trim_raw_output(text, tlog.max_bytes)]
    /\ LogUntouched

\* `while Instant::now() < deadline` ends the search.
LogDeadline ==
    /\ tlog.pc = "reading"
    /\ tlog' = [tlog EXCEPT !.pc = "done", !.by_deadline = TRUE]
    /\ LogUntouched

LogInit ==
    /\ KernelIdle
    /\ pty = NoExec
    /\ ws = NoResolve
    /\ cmd = NoCommand
    /\ store = NoStore
    /\ judge = NoJudge
    /\ mux = NoMux
    /\ mtx = NoMutex
    /\ reg = NoRegistry
    /\ \E before \in LoggedBefore, old \in OldOutputs, st \in LogStreams, mb \in LogMaxBytes :
          tlog = [ pc |-> "offset", log |-> before, todo |-> old, stream |-> st,
                   max_bytes |-> mb, start_pos |-> 0, sent |-> FALSE, reply_from |-> 0,
                   pos |-> 0, read_from |-> 0, raw_output |-> <<>>, found |-> FALSE,
                   by_deadline |-> FALSE ]

LogNext ==
    \/ \E opened \in BOOLEAN : LogOffset(opened)
    \/ LogWrite
    \/ \E n \in 1..Len(tlog.todo) : LogDrain(n)
    \/ \E opened \in BOOLEAN : LogOpen(opened)
    \/ \E n \in 1..(Len(tlog.log) - tlog.pos) : LogRead(n)
    \/ LogDeadline

LogSpec == LogInit /\ [][LogNext]_vars

----------------------------------------------------------------------------
\* services/pty.rs: the sessions of the TerminalManager.  The commands of
\* lib.rs that create, kill, list and order sessions are synchronous commands,
\* which run one after the other; each call is one step.  A session id is a
\* fresh Uuid: the ids are numbered in the order of their creation, and 0 is
\* an id that no session ever had.

MaxSessions == 3
SessionIds == 1..MaxSessions
NoSession == 0
RequestIds == {NoSession} \cup SessionIds

\* `request.title`, as it is given to set_title.
RawTitles == { <<"t">>, <<" ">> }

SessionNotFound == "Session not found"

\* HashMap::get_mut(..).ok_or_else(|| "Session not found")
lookup(sessions, id) == IF id \in DOMAIN sessions THEN "ok" ELSE SessionNotFound

\* A kill that leaves the order list as it is.
remove_none(order, id) == order

\* `order.iter().position(|id| ..)` and `order.remove(index)`: the first
\* occurrence of the id goes.
remove_first(order, id) ==
    LET hits == {i \in 1..Len(order) : order[i] = id} IN
    IF hits = {} THEN order
    ELSE LET index == CHOOSE i \in hits : \A j \in hits : i <= j
         IN  SubSeq(order, 1, index - 1) \o SubSeq(order, index + 1, Len(order))

\* How often the id stands in the order list.
Occurrences(order, id) == Cardinality({i \in 1..Len(order) : order[i] = id})

\* The ids of a sequence, each once, in the order of their first occurrence.
RECURSIVE Distinct(_, _)
Distinct(ids, seen) ==
    IF ids = <<>> THEN <<>>
    ELSE IF Head(ids) \in seen THEN Distinct(Tail(ids), seen)
    ELSE <<Head(ids)>> \o Distinct(Tail(ids), seen \cup {Head(ids)})

\* The ids of a set as a sequence: the HashMap yields its keys in an order of
\* its own.
Orderings(ids) ==
    {o \in [1..Cardinality(ids) -> ids] : \A i, j \in 1..Cardinality(ids) : o[i] = o[j] => i = j}

RegUntouched ==
    UNCHANGED <<running, paused, state, seq, event, shown, ret, from, inputs, loops,
                bus_vars, llm_vars, pty, ws, cmd, store, judge, mux, mtx, tlog>>

SetReg(sessions, order, made, op, id, valid, returned) ==
    reg' = [ sessions |-> sessions, order |-> order, made |-> made,
             last |-> [op |-> op, id |-> id, valid |-> valid, ret |-> returned] ]

\* create_session: the session goes into the map and its id to the end of the
\* order list.
RegCreate(title) ==
    /\ reg.made < MaxSessions
    /\ LET id == reg.made + 1 IN
       SetReg([i \in DOMAIN reg.sessions \cup {id} |->
                  IF i = id THEN [title |-> title] ELSE reg.sessions[i]],
              Append(reg.order, id), id, "create_session", id, TRUE, "ok")
    /\ RegUntouched

\* kill: the session leaves the map, its child is killed, and the id leaves
\* the order list; the call returns Ok whether or not the id was known.
RegKill(id) ==
    /\ id <= reg.made
    /\ SetReg([i \in DOMAIN reg.sessions \ {id} |-> reg.sessions[i]],
              remove_first(reg.order, id), reg.made, "kill", id, TRUE, "ok")
    /\ RegUntouched

\* write: the base64 text is decoded before the session is looked up.
RegWrite(id, valid) ==
    /\ id <= reg.made
    /\ SetReg(reg.sessions, reg.order, reg.made, "write", id, valid,
              IF ~valid THEN "Invalid base64 input" ELSE lookup(reg.sessions, id))
    /\ RegUntouched

\* resize.
RegResize(id) ==
    /\ id <= reg.made
    /\ SetReg(reg.sessions, reg.order, reg.made, "resize", id, TRUE, lookup(reg.sessions, id))
    /\ RegUntouched

\* exec_interactive with a session id: exec_in_session looks the session up.
RegExec(id) ==
    /\ id <= reg.made
    /\ SetReg(reg.sessions, reg.order, reg.made, "exec", id, TRUE, lookup(reg.sessions, id))
    /\ RegUntouched

\* set_title: the title is trimmed and must not be empty; then the lookup.
RegSetTitle(id, raw) ==
    /\ id <= reg.made
    /\ LET title == Trim(raw) IN
       IF title = <<>>
       THEN SetReg(reg.sessions, reg.order, reg.made, "set_title", id, FALSE,
                   "Title cannot be empty")
       ELSE IF lookup(reg.sessions, id) # "ok"
       THEN SetReg(reg.sessions, reg.order, reg.made, "set_title", id, TRUE, SessionNotFound)
       ELSE SetReg([reg.sessions EXCEPT ![id].title = title], reg.order, reg.made,
                   "set_title", id, TRUE, "ok")
    /\ RegUntouched

\* list_sessions: sessions that the order list does not name are added to it.
RegList ==
    /\ reg.made > 0
    /\ \E rest \in Orderings({i \in DOMAIN reg.sessions : Occurrences(reg.order, i) = 0}) :
          SetReg(reg.sessions, reg.order \o rest, reg.made, "list_sessions", NoSession, TRUE, "ok")
    /\ RegUntouched

\* set_order: an unknown id is an error; the ids asked for come first, each
\* once, and the other sessions follow.
RegSetOrder(ids) ==
    /\ reg.made > 0
    /\ \A i \in 1..Len(ids) : ids[i] <= reg.made
    /\ IF \E i \in 1..Len(ids) : ids[i] \notin DOMAIN reg.sessions
       THEN SetReg(reg.sessions, reg.order, reg.made, "set_order", NoSession, FALSE,
                   "Unknown session id")
       ELSE \E rest \in Orderings({i \in DOMAIN reg.sessions :
                                      \A k \in 1..Len(ids) : ids[k] # i}) :
               SetReg(reg.sessions, Distinct(ids, {}) \o rest, reg.made, "set_order",
                      NoSession, TRUE, "ok")
    /\ RegUntouched

\* TerminalManager::new: no session.
RegInit ==
    /\ KernelIdle
    /\ pty = NoExec
    /\ ws = NoResolve
    /\ cmd = NoCommand
    /\ store = NoStore
    /\ judge = NoJudge
    /\ mux = NoMux
    /\ mtx = NoMutex
    /\ tlog = NoLog
    /\ reg = [ sessions |-> <<>>, order |-> <<>>, made |-> 0,
               last |-> [op |-> "new", id |-> NoSession, valid |-> TRUE, ret |-> "ok"] ]

RegNext ==
    \/ \E title \in {<<"S">>, <<"t">>} : RegCreate(title)
    \/ \E id \in RequestIds : RegKill(id)
    \/ \E id \in RequestIds, valid \in BOOLEAN : RegWrite(id, valid)
    \/ \E id \in RequestIds : RegResize(id)
    \/ \E id \in RequestIds : RegExec(id)
    \/ \E id \in RequestIds, raw \in RawTitles : RegSetTitle(id, raw)
    \/ RegList
    \/ \E ids \in UNION {[1..n -> RequestIds] : n \in 0..2} : RegSetOrder(ids)

RegSpec == RegInit /\ [][RegNext]_vars

----------------------------------------------------------------------------
\* Properties

\* C1: under any interleaving of the control calls at most one run_loop task
\* is live, and a live task holds the running flag; a task is spawned only in
\* a step that flips running from false to true, and running is cleared only
\* by a task that is exiting and ends in that step.
C1_SingleLoop ==
    /\ [](Cardinality(LiveLoops) <= 1 /\ (LiveLoops # {} => running))
    /\ [][ /\ (\E l \in LoopIds : loops[l].pc = "none" /\ loops'[l].pc # "none")
               => (~running /\ running')
           /\ (running /\ ~running')
               => (\E l \in LoopIds : loops[l].pc = "exit" /\ loops'[l].pc = "none")
         ]_vars

\* user_input was called while the run was Running and its loop was in the
\* middle of a dispatch: the one loop is still the only one.
C1_Witness ==
    /\ event = "user_input"
    /\ from = "Running"
    /\ running
    /\ Cardinality(LiveLoops) = 1
    /\ \E l \in LoopIds : loops[l].pc = "dispatch"

\* C2: start called while the running flag is set returns "Kernel already
\* running" and leaves run_id, agent_state, messages, plan, budget and the
\* event sequence counter (and the flags and the loop) as they were.
C2_StartRejected ==
    [][ (Start /\ running) =>
            /\ ret' = "Kernel already running"
            /\ state'.run_id = state.run_id
            /\ state'.agent_state = state.agent_state
            /\ state'.messages = state.messages
            /\ state'.plan = state.plan
            /\ state'.budget = state.budget
            /\ seq' = seq
            /\ UNCHANGED <<running, paused, loops>>
      ]_vars

\* A rejected start on a run that has a plan, a conversation and events.
C2_Witness ==
    /\ ret = "Kernel already running"
    /\ running
    /\ state.plan # None
    /\ state.messages # <<>>
    /\ seq > 0

\* C3 (as stated): used_steps decreases only by being set to 0, and only in a
\* start or in a continue_run that finds the run AwaitingUser.
C3_AsStated ==
    [][ state'.budget.used_steps < state.budget.used_steps =>
            /\ state'.budget.used_steps = 0
            /\ \/ Start
               \/ ContinueRun /\ state.agent_state = "AwaitingUser"
      ]_vars

\* C3 (amended): used_steps decreases only by being set to 0, and only in a
\* start, in a continue_run that finds the run AwaitingUser, or in a
\* user_input without a stop phrase that finds the run AwaitingUser; pause,
\* resume, stop, any other user_input and the run loop never lower it.
C3_ResetOnlyByStartContinueReply ==
    [][ state'.budget.used_steps < state.budget.used_steps =>
            /\ state'.budget.used_steps = 0
            /\ \/ Start
               \/ ContinueRun /\ state.agent_state = "AwaitingUser"
               \/ /\ \E raw \in UserContents : UserInput(raw)
                  /\ state.agent_state = "AwaitingUser"
                  /\ event' = "user_input"
      ]_vars

\* The budget of one step was used up, the loop wrote its notice, and the
\* user's reply set used_steps back to 0.
C3_Witness ==
    /\ event = "user_input"
    /\ from = "AwaitingUser"
    /\ state.budget.used_steps = 0
    /\ Len(state.messages) >= 2
    /\ state.messages[Len(state.messages) - 1] =
           [role |-> "assistant", content |-> Notice(1)]

C5_Stop ==
    [][ Stop =>
          state' = [state EXCEPT !.agent_state =
                                   IF @ = "Idle" THEN "Idle" ELSE "Finished"]
      ]_vars

\* stop found a run that was waiting for the user.
C5_Witness ==
    /\ event = "stop"
    /\ from = "AwaitingUser"
    /\ state.agent_state = "Finished"

\* C6: continue_run moves the run to Running, clears last_error and sets
\* used_steps to 0 when it finds the run AwaitingUser; in every other state
\* agent_state, last_error and used_steps stay and no loop is spawned.
C6_Continue ==
    [][ ContinueRun =>
          IF state.agent_state = "AwaitingUser"
          THEN /\ state'.agent_state = "Running"
               /\ state'.last_error = None
               /\ state'.budget.used_steps = 0
          ELSE /\ state'.agent_state = state.agent_state
               /\ state'.last_error = state.last_error
               /\ state'.budget.used_steps = state.budget.used_steps
               /\ UNCHANGED <<running, loops>>
      ]_vars

\* continue_run found the run AwaitingUser after a decision with no actions,
\* which had set last_error.
C6_Witness ==
    /\ event = "continue"
    /\ from = "AwaitingUser"
    /\ state.agent_state = "Running"
    /\ state.last_error = None
    /\ state.messages # <<>>
    /\ state.messages[Len(state.messages)] =
           [role |-> "assistant", content |-> "LLM returned no actions"]

\* C7: user_input with a stop phrase ("stop", also padded and capitalised)
\* moves the run to Finished from every phase and spawns no loop.
C7_StopPhrase ==
    [][ \A raw \in { <<"s","t","o","p">>, <<" ","S","t","o","p"," ">> } :
            UserInput(raw) =>
                /\ state'.agent_state = "Finished"
                /\ UNCHANGED <<running, loops>>
      ]_vars

\* " Stop " reached a paused run.
C7_Witness ==
    /\ event = "user_stop"
    /\ from = "Paused"
    /\ state.agent_state = "Finished"
    /\ ~paused

\* C8 (as stated): user_input with content that is not empty and no stop
\* phrase appends one user message, moves the run to Running from
\* AwaitingUser, Idle and Error, and does not move a Paused or Finished run
\* to Running.
C8_AsStated ==
    [][ UserInput(<<"c","o","n","t","i","n","u","e">>) =>
            /\ Len(state'.messages) = Len(state.messages) + 1
            /\ state'.messages[Len(state'.messages)].role = "user"
            /\ state.agent_state \in {"AwaitingUser", "Idle", "Error"}
                  => state'.agent_state = "Running"
            /\ state.agent_state \in {"Paused", "Finished"}
                  => state'.agent_state # "Running"
      ]_vars

\* C8 (amended): user_input with content that is not empty and no stop phrase
\* appends one user message and leaves the run Running whatever state it
\* found, Paused and Finished included; it spawns a loop exactly when the
\* running flag was clear.
C8_UserInputRuns ==
    [][ UserInput(<<"c","o","n","t","i","n","u","e">>) =>
            /\ Len(state'.messages) = Len(state.messages) + 1
            /\ SubSeq(state'.messages, 1, Len(state.messages)) = state.messages
            /\ state'.messages[Len(state'.messages)].role = "user"
            /\ state'.agent_state = "Running"
            /\ running'
            /\ IF running THEN loops' = loops
               ELSE Cardinality(LiveLoops') = Cardinality(LiveLoops) + 1
      ]_vars

\* user_input found a Finished run, set it Running and started a loop.
C8_Witness ==
    /\ event = "user_input"
    /\ from = "Finished"
    /\ state.agent_state = "Running"
    /\ running
    /\ LiveLoops # {}

C11_DecisionFailure ==
    [][ \A l \in LoopIds :
          (loops[l].pc = "decide" /\ loops'[l].pc # "decide" /\ event' = "agent_error") =>
              /\ state'.agent_state = "Error"
              /\ state'.last_error \in
                    { <<"LLM profile not configured. Save a profile in LLM Settings.">>,
                      <<"decision failed">>,
                      <<"Unable to parse JSON response from LLM.">> }
              /\ state'.messages = Append(state.messages,
                    [role |-> "assistant", content |-> state'.last_error[1]])
              /\ state'.budget = state.budget
              /\ loops'[l].pc = "exit"
              /\ loops'[l].batch = <<>>
      ]_vars

\* The response did not parse, after one completed batch: the run is in
\* Error with the parse failure as last_error, and used_steps is still 1.
C11_Witness ==
    /\ event = "agent_error"
    /\ state.agent_state = "Error"
    /\ state.last_error = <<"Unable to parse JSON response from LLM.">>
    /\ state.budget.used_steps = 1
    /\ \E l \in LoopIds : loops[l].pc = "exit"

\* C12: a decision that succeeds with no actions ends the loop without
\* touching the budget: with a message, the message is appended and the run
\* is Finished; without one, "LLM returned no actions" is appended and set
\* as last_error, and the run is AwaitingUser.
C12_NoActions ==
    [][ \A l \in LoopIds :
          ( /\ loops[l].pc = "decide"
            /\ loops'[l].pc # "decide"
            /\ loops'[l].batch = <<>>
            /\ event' # "agent_error" ) =>
              /\ Len(state'.messages) = Len(state.messages) + 1
              /\ LET new == state'.messages[Len(state'.messages)] IN
                 /\ state'.messages = Append(state.messages, new)
                 /\ new.role = "assistant"
                 /\ IF new.content = "LLM returned no actions"
                    THEN /\ state'.agent_state = "AwaitingUser"
                         /\ state'.last_error = <<"LLM returned no actions">>
                    ELSE /\ state'.agent_state = "Finished"
                         /\ state'.last_error = state.last_error
              /\ state'.budget = state.budget
              /\ loops'[l].pc = "exit"
      ]_vars

\* The second decision of a run carried a message and no actions: the run is
\* Finished and used_steps is still the 1 of the first batch.
C12_Witness ==
    /\ event = "finished"
    /\ state.agent_state = "Finished"
    /\ state.messages # <<>>
    /\ state.messages[Len(state.messages)] =
           [role |-> "assistant", content |-> "use the workspace?"]
    /\ state.budget.used_steps = 1
    /\ \E l \in LoopIds : loops[l].pc = "exit"

\* C13: when the dispatcher returns an error the run is set to Error with a
\* last_error that is not blank, nothing else of the run state changes (the
\* budget in particular), and the loop goes to its exit from wherever it was
\* in the batch; a loop at its exit does nothing but end.
C13_DispatchError ==
    [][ /\ \A l \in LoopIds :
          ( /\ loops[l].pc = "dispatch"
            /\ loops'[l].pc # "dispatch"
            /\ event' = "runtime_error" ) =>
              /\ state'.agent_state = "Error"
              /\ state'.last_error \in { <<"Runtime error">>, <<"err">> }
              /\ state' = [state EXCEPT !.agent_state = "Error",
                                        !.last_error = state'.last_error]
              /\ loops'[l].pc = "exit"
        /\ \A l \in LoopIds :
              loops[l].pc = "exit" => loops'[l] \in {loops[l], NoLoop}
      ]_vars

\* The dispatcher failed with a blank error on the first of two tool calls.
C13_Witness ==
    /\ event = "runtime_error"
    /\ state.agent_state = "Error"
    /\ state.last_error = <<"Runtime error">>
    /\ state.budget.used_steps = 0
    /\ \E l \in LoopIds :
          /\ loops[l].pc = "exit"
          /\ loops[l].batch = <<"terminal.exec", "terminal.exec">>
          /\ loops[l].idx = 1

\* C14: an observation that failed (and does not ask for the user) sets
\* agent_state to Error and last_error to its summary, and nothing else;
\* the loop starts a dispatch or a decision call only on finding the run
\* Running, and only a control call (start, user_input) takes a run from
\* Error to Running.
C14_FailedObservation ==
    [][ /\ \A l \in LoopIds :
             (loops[l].pc = "dispatch" /\ loops'[l].pc # "dispatch"
                 /\ loops'[l].obs = "failed") =>
                 state' = [state EXCEPT !.agent_state = "Error",
                                        !.last_error = <<"error">>]
        /\ \A l \in LoopIds :
             (loops[l].pc # loops'[l].pc /\ loops'[l].pc \in {"dispatch", "decide"}) =>
                 state.agent_state = "Running"
        /\ (state.agent_state = "Error" /\ state'.agent_state = "Running") =>
                 (Start \/ \E raw \in UserContents : UserInput(raw))
      ]_vars

\* The first of two tool calls failed; the loop came to the second, found
\* the run in Error and left without starting it.
C14_Witness ==
    /\ event = "Observation"
    /\ state.agent_state = "Error"
    /\ state.last_error = <<"error">>
    /\ \E l \in LoopIds :
          /\ loops[l].pc = "exit"
          /\ loops[l].batch = <<"terminal.exec", "terminal.exec">>
          /\ loops[l].idx = 2

\* C15: used_steps grows only by 1 and only as the loop ends a batch whose
\* every action was dispatched and whose last observation did not ask for
\* the user, and it grows each time that happens; every step by which the
\* loop goes to its exit (UserAsk, requires_user, dispatch failure, budget
\* notice, decision failure, no actions, run no longer Running) leaves the
\* budget as it was.
C15_StepCounting ==
    [][ /\ state'.budget.used_steps > state.budget.used_steps =>
             /\ state'.budget.used_steps = state.budget.used_steps + 1
             /\ \E l \in LoopIds :
                   /\ loops[l].pc = "step_done"
                   /\ loops'[l].pc = "top"
                   /\ loops[l].batch # <<>>
                   /\ loops[l].idx = Len(loops[l].batch)
                   /\ \A j \in 1..Len(loops[l].batch) : loops[l].batch[j] # "user.ask"
                   /\ loops[l].obs \in {"ok", "failed"}
        /\ \A l \in LoopIds :
             (loops[l].pc = "step_done" /\ loops'[l].pc # "step_done") =>
                 state'.budget.used_steps = state.budget.used_steps + 1
        /\ \A l \in LoopIds :
             ( /\ loops[l].pc = "dispatch"
               /\ loops'[l].pc # "dispatch"
               /\ loops'[l].obs \in {"ok", "failed"}
               /\ loops[l].idx = Len(loops[l].batch) ) =>
                 loops'[l].pc = "step_done"
        /\ \A l \in LoopIds :
             (loops[l].pc # "exit" /\ loops'[l].pc = "exit") =>
                 state'.budget = state.budget
        /\ \A l \in LoopIds :
             (loops[l].pc = "dispatch" /\ loops'[l].obs = "requires_user") =>
                 loops'[l].pc = "exit"
      ]_vars

\* A batch completed with the run still Running: used_steps is 1 and the
\* loop is back at its top.
C15_Witness ==
    /\ event = "JudgeResult"
    /\ state.agent_state = "Running"
    /\ state.budget.used_steps = 1
    /\ \E l \in LoopIds : loops[l].pc = "top"

\* C16 (as stated): every change of agent_state is followed, before the
\* control call returns or the loop exits, by a StateChanged event and a
\* save that show the new agent_state: whenever no loop is live, the last
\* StateChanged event and save show the agent_state the run has.
C16_AsStated ==
    LiveLoops = {} => shown = state.agent_state


\* C17 (as stated): within one run id the seq values of the events are
\* strictly increasing, without duplicates, in the order the events are
\* appended to the log, also when tasks emit concurrently and when start
\* switches the run id and resets the counter.
C17_AsStated ==
    \A i, j \in 1..Len(log) :
        (i < j /\ log[i].run_id = log[j].run_id) => log[i].seq < log[j].seq

\* C18 (as stated): for every profile, once the parsed actions are filtered,
\* an action that is not a control action and whose type no enabled toggle
\* stands for is neither among the actions the decision keeps nor in the
\* batch the action loop dispatches from, also when every toggle is disabled;
\* plan.update, task.update and user.ask actions are all kept.
C18_AsStated ==
    decision.stage \in {"retained", "done"} =>
        \A i \in 1..Len(decision.parsed) :
            LET action  == decision.parsed[i]
                enabled == \E t \in profile :
                              t.enabled /\ map_tool_toggle_to_action(t.id) = Some(action.type)
                batch   == loops[1].batch
            IN  /\ (action.type \notin ControlTypes /\ ~enabled)
                     => /\ \A j \in 1..Len(decision.actions) : decision.actions[j] # action
                        /\ \A j \in 1..Len(batch) : batch[j] # action
                /\ action.type \in ControlTypes
                     => \E j \in 1..Len(decision.actions) : decision.actions[j] = action

\* C19 (as stated): once a response is parsed, every action that came without
\* an id has a non-empty id that starts with the tag of its type (term for
\* terminal.exec, write for fs.write, git for git.status, ask for user.ask),
\* and no two actions of the batch have the same id.
C19_AsStated ==
    decision.stage \in {"parsed", "retained", "done"} =>
        LET parsed == decision.parsed
            tag(type) == CASE type = "terminal.exec" -> "term"
                           [] type = "fs.write" -> "write"
                           [] type = "git.status" -> "git"
                           [] type = "user.ask" -> "ask"
        IN  /\ \A i \in 1..Len(parsed) :
                 response.items[i].id = None
                     => /\ parsed[i].id # <<>>
                        /\ Head(parsed[i].id) = tag(parsed[i].type)
            /\ \A i, j \in 1..Len(parsed) : i < j => parsed[i].id # parsed[j].id

\* C20: when an action of the response has an unknown type, lacks a string
\* field its type requires, or (in an array) has no type, the decision call
\* fails, and when run_loop has dealt with it the run is in Error with the
\* parse error as last_error, the loop is about to end, and no action of the
\* decision is kept or in the batch of the action loop, whatever valid
\* actions come before the bad one.
C20_HardParseError ==
    LET items == response.items
        bad(item) ==
            \/ item.type = None /\ response.shape = "array"
            \/ item.type = Some("fs.delete")
            \/ item.type \in {Some("terminal.exec"), Some("fs.write"), Some("user.ask")}
                 /\ ~item.fields
    IN  ((\E i \in 1..Len(items) : bad(items[i])) /\ decision.stage # "none")
            => /\ decision.stage \in {"failed", "done"}
               /\ decision.err # None
               /\ decision.actions = <<>>
               /\ loops[1].batch = <<>>
               /\ decision.stage = "done"
                    => /\ state.agent_state = "Error"
                       /\ state.last_error = decision.err
                       /\ loops[1].pc = "exit"

\* A terminal.exec action that parses, followed by an action of unknown type:
\* the run has failed with "Unsupported action type".
C20_Witness ==
    /\ decision.stage = "done"
    /\ Len(response.items) = 2
    /\ response.items[1] = [type |-> Some("terminal.exec"), id |-> None, fields |-> TRUE]
    /\ response.items[2].type = Some("fs.delete")
    /\ state.agent_state = "Error"
    /\ state.last_error = Some("Unsupported action type")

\* C21 (as stated): when extract_between_markers is given a whole stream of
\* the form noise, start-marker line, body lines, end-marker line with exit
\* text, tail, the captured text is the text strictly between the two marker
\* lines (h for the body line h: the body without the line end that closes
\* it), and the exit code is the integer after the prefix (0, -1, 10, none
\* when there is no digit); and a marker that is not at the start of its line
\* is never taken: the markers are found only when the text read reaches the
\* end marker of the stream.
C21_AsStated ==
    LET st       == pty.stream
        body     == IF st.body = <<>> THEN <<>> ELSE SubSeq(st.body, 1, Len(st.body) - 1)
        code     == CASE st.exit = <<"0">> -> Some(0)
                      [] st.exit = <<"-", "1">> -> Some(0 - 1)
                      [] st.exit = <<"1", "0">> -> Some(10)
                      [] st.exit = <<>> -> None
        to_end   == Len(st.noise) + Len(st.start_lead) + 2 + 1 + Len(st.body)
                    + Len(st.end_lead) + 2
    IN  (pty.pc # "none" /\ pty.found)
            => /\ pty.got >= to_end
               /\ pty.input = pty.raw => (pty.raw_output = body /\ pty.exit_code = code)

\* C22: when the read loop of exec, in a session or detached, is ended by
\* the deadline before both markers were found, the result is timed out (not
\* ok, no exit code, the timeout message as stderr) if the output it returns
\* is blank, and a success (ok, exit code 0, no stderr) if that output has a
\* character that is not white space.
C22_TimeoutOrOutput ==
    (pty.pc = "done" /\ pty.by_deadline) =>
        LET r     == pty.result[1]
            blank == \A i \in 1..Len(r.stdout_excerpt) :
                        r.stdout_excerpt[i] \in {" ", "\t", "\n", "\r"}
        IN  /\ ~pty.found
            /\ blank => /\ ~r.ok
                        /\ r.exit_code = None
                        /\ r.stderr_excerpt = Some("Timeout waiting for command completion.")
            /\ ~blank => /\ r.ok
                         /\ r.exit_code = Some(0)
                         /\ r.stderr_excerpt = None

\* The deadline passed when the start marker and a body line were read, and
\* the end marker was not: the call in the session is a success.
C22_Witness ==
    /\ pty.pc = "done"
    /\ pty.by_deadline
    /\ pty.mode = "session"
    /\ pty.stream.body = <<"h", "\n">>
    /\ pty.got = Len(pty.stream.noise) + Len(pty.stream.start_lead) + 5
    /\ pty.result[1].ok
    /\ pty.result[1].exit_code = Some(0)

\* C23 (as stated): for every workspace root, a resolution for read or for
\* write of a path that leads out of the root fails with the escape error.
\* A path leads out of the root when the file it reaches, or would make, is
\* not under the root, or when the path itself, with "." and ".." taken out,
\* is not under the root, as "../../etc/passwd" is for every root.
C23_AsStated ==
    LET candidate == IF ws.input.absolute THEN ws.input.parts ELSE ws.root \o ws.input.parts
        parent    == canonicalize(Parent(candidate))
        target    == IF exists(candidate) THEN Some(canonicalize(candidate).path)
                     ELSE IF candidate[Len(candidate)] \notin {".", ".."}
                             /\ parent.ok /\ parent.path \in Dirs
                          THEN Some(Append(parent.path, candidate[Len(candidate)]))
                     ELSE None
        outside   == \/ target # None /\ ~starts_with(target[1], ws.root)
                     \/ ~starts_with(lexical_normalize(candidate), ws.root)
    IN  (ws.op \in {"read", "write"} /\ outside)
            => (~ws.result.ok /\ ws.result.err = Some("Path escapes workspace root"))

\* C24: for a path whose last component does not exist, in a directory that
\* exists under the root (as sub/new with sub/ there), the resolution for
\* write succeeds with a path that has no "." and no ".." component and lies
\* under the root, and the resolution for read fails.
C24_NewFileForWrite ==
    LET candidate == IF ws.input.absolute THEN ws.input.parts ELSE ws.root \o ws.input.parts
        last      == candidate[Len(candidate)]
        parent    == Walk(<<>>, SubSeq(candidate, 1, Len(candidate) - 1))
        is_new    == /\ ~Walk(<<>>, candidate).ok
                     /\ last \notin {".", ".."}
                     /\ parent.ok
                     /\ parent.path \in Dirs
                     /\ Len(parent.path) >= Len(ws.root)
                     /\ SubSeq(parent.path, 1, Len(ws.root)) = ws.root
        path      == ws.result.path
    IN  /\ (ws.op = "write" /\ is_new)
            => /\ ws.result.ok
               /\ \A i \in 1..Len(path) : path[i] \notin {".", ".."}
               /\ Len(path) >= Len(ws.root)
               /\ SubSeq(path, 1, Len(ws.root)) = ws.root
        /\ (ws.op = "read" /\ is_new) => ~ws.result.ok

\* sub/./new under the root /ws, where /ws/sub is a directory with no entry
\* new, resolved for write: the result is /ws/sub/new.
C24_Witness ==
    /\ ws.op = "write"
    /\ ws.root = <<"ws">>
    /\ ws.input = [absolute |-> FALSE, parts |-> <<"sub", ".", "new">>]
    /\ ws.result.ok
    /\ ws.result.path = <<"ws", "sub", "new">>


\* C25: no action that runs a command (TerminalExec through a shell session,
\* TerminalRun, TestsRun) reaches the shell or spawns a process when its
\* command text contains a pattern of the deny-list.
C25_AsStated ==
    (/\ cmd.pc = "done"
     /\ is_dangerous_command(cmd.program, cmd.args) # None)
        => cmd.outcome \notin {"shell", "spawned"}

\* C26: recent_observations never holds more than 6 entries, and it holds the
\* last entries that arrived since the start, in the order of their arrival
\* (the oldest one is the one evicted); a start leaves it empty.
C26_BoundedRing ==
    LET ring == store.st.recent_observations
        n == Len(store.arrived)
        kept == IF n > 6 THEN 6 ELSE n
    IN  /\ Len(ring) <= 6
        /\ ring = SubSeq(store.arrived, n - kept + 1, n)
        /\ store.fresh => ring = <<>>

\* Seven entries arrived, the first two of them different: the first one is
\* gone and the ring starts with the second.
C26_Witness ==
    /\ Len(store.arrived) = 7
    /\ store.arrived[1] # store.arrived[2]
    /\ Len(store.st.recent_observations) = 6
    /\ store.st.recent_observations[1] = store.arrived[2]
    /\ store.st.recent_observations[6] = store.arrived[7]

C27_JudgeAggregation ==
    judge.pc = "done" =>
        LET n == Len(judge.rules)
            seen == {judge.outcomes[i].status : i \in 1..n}
            result == judge.result
        IN  /\ n = 0 => result.status = "skip"
            /\ n > 0 =>
                  result.status =
                      (IF seen \cap {"fail", "error"} # {} THEN "fail"
                       ELSE IF seen \ {"pass", "skip"} # {} THEN "pending"
                       ELSE IF "pass" \in seen THEN "pass"
                       ELSE "skip")
            /\ Len(result.checks) = n
            /\ \A i \in 1..n :
                  /\ result.checks[i].id = judge.rules[i].id
                  /\ result.checks[i].status = judge.outcomes[i].status

\* Three rules: one skipped, one passed, one pending; the result is pending,
\* with the three checks in this order.
C27_Witness ==
    /\ judge.pc = "done"
    /\ Len(judge.rules) = 3
    /\ judge.outcomes[1].status = "skip"
    /\ judge.outcomes[2].status = "pass"
    /\ judge.outcomes[3].status = "pending"
    /\ judge.result.status = "pending"
    /\ judge.result.checks[1].status = "skip"
    /\ judge.result.checks[3].id = 3

\* C28: the pieces of two blocks never interleave in the input of the pty:
\* each piece is followed by the next piece of the same call, and only the
\* last piece of a block is followed by the first piece of another.
C28_BlocksDoNotInterleave ==
    mux.lock # "none" =>
        \A i \in 1..(Len(mux.input) - 1) :
            LET a == mux.input[i]
                b == mux.input[i + 1]
            IN  IF a.caller = b.caller /\ a.call = b.call
                THEN b.piece = a.piece + 1
                ELSE /\ a.piece = (IF a.caller = "write" THEN 2 ELSE 3)
                     /\ b.piece = 1

\* The block of exec1 is whole in the input, exec2 is in the middle of its
\* own, and write has been called and waits for the lock.
C28_Witness ==
    /\ mux.lock = "exec2"
    /\ Len(mux.input) = 5
    /\ mux.input[1].caller = "exec1"
    /\ mux.input[3].caller = "exec1"
    /\ mux.input[4].caller = "exec2"
    /\ mux.callers["exec1"].pc = "called"
    /\ mux.callers["write"].pc = "called"

\* C29: the mutex of the run state is held only while a closure runs, never
\* while a decision call or a tool dispatch is in flight, and a pause, stop,
\* continue_run or user_input that arrives during one completes.
C29_LockNeverAcrossCalls ==
    /\ [](/\ (mtx.holder = "loop") = mtx.loop.held
          /\ (mtx.holder = "ctl") = (mtx.ctl.pc \in {"closure", "snapshot"})
          /\ mtx.loop.pc \in {"deciding", "dispatching"} => mtx.holder # "loop")
    /\ (/\ mtx.ctl.pc = "called"
        /\ mtx.ctl.op \in {"pause", "stop", "continue_run", "user_input"}
        /\ mtx.loop.pc \in {"deciding", "dispatching"})
          ~> (mtx.ctl.pc = "done")

\* A stop arrived while the tool dispatch was in flight and has completed,
\* and the same dispatch is still in flight.
C29_Witness ==
    /\ mtx.ctl.pc = "done"
    /\ mtx.ctl.op = "stop"
    /\ mtx.ctl.during = "dispatching"
    /\ mtx.loop.pc = "dispatching"
    /\ mtx.ctl.flight = mtx.flights
    /\ mtx.st.agent_state = "Finished"

\* C31: a start carries the plan and the messages of the previous run forward
\* only when that run ended in Finished or Error (and the request asked for
\* it); a start that finds any other agent_state leaves no plan and no
\* message.
C31_AsStated ==
    [][(/\ store'.fresh
        /\ store.st.agent_state \notin {"Finished", "Error"})
          => /\ store'.st.plan = None
             /\ store'.st.messages = <<>>
      ]_vars

\* C32: pause does not cut a batch short and holds back the next model round:
\* while the pause flag is set and the run is Paused, the loop goes on from
\* one action of its batch to the dispatch of the next, and no decision call
\* begins while the pause flag is set.
C32_AsStated ==
    [][\A l \in LoopIds :
          /\ (/\ loops[l].pc = "act"
              /\ loops'[l] # loops[l]
              /\ paused
              /\ state.agent_state = "Paused")
                => loops'[l].pc \in {"dispatch", "ask"}
          /\ (/\ loops'[l].pc = "decide"
              /\ loops[l].pc # "decide")
                => ~paused
      ]_vars

\* C33: in exec on a session the length of the log is recorded before the
\* command block is written, so the search of the log begins at or before the
\* place where the reply of the shell begins, whatever the reader thread
\* appended in between; and a search that has read the whole reply has found
\* both markers.
C33_AsStated ==
    /\ tlog.pc \in {"open", "reading", "done", "failed"}
          => tlog.start_pos <= tlog.reply_from
    /\ tlog.pc \in {"reading", "done"}
          => tlog.read_from <= tlog.reply_from
    /\ (/\ tlog.pc \in {"reading", "done"}
        /\ tlog.todo = <<>>
        /\ tlog.pos = Len(tlog.log)
        /\ ~tlog.by_deadline)
          => tlog.found

\* C34 (as stated): after create_session the id is in the session map and
\* once in the order list; after kill it is in neither, kill returns Ok also
\* for an id that no session has, and it changes no other session; write,
\* resize, set_title and exec on an id that no session has return "Session
\* not found".
C34_AsStated ==
    [][/\ reg'.last.op = "create_session"
          => /\ reg'.last.id \in DOMAIN reg'.sessions
             /\ Occurrences(reg'.order, reg'.last.id) = 1
       /\ (reg' # reg /\ reg'.last.op = "kill")
          => /\ reg'.last.ret = "ok"
             /\ reg'.last.id \notin DOMAIN reg'.sessions
             /\ Occurrences(reg'.order, reg'.last.id) = 0
             /\ \A o \in DOMAIN reg.sessions \ {reg'.last.id} :
                   /\ o \in DOMAIN reg'.sessions
                   /\ reg'.sessions[o] = reg.sessions[o]
                   /\ Occurrences(reg'.order, o) = Occurrences(reg.order, o)
       /\ (/\ reg'.last.op \in {"write", "resize", "set_title", "exec"}
           /\ reg'.last.id \notin DOMAIN reg.sessions)
          => reg'.last.ret = "Session not found"
      ]_vars

\* C34 (amended): as above, but write, resize, set_title and exec on an id
\* that no session has always fail, and with "Session not found" when the
\* other arguments of the call are valid: set_title with a blank title and
\* write with text that is not base64 fail before the id is looked up.
C34_SessionLifecycle ==
    [][/\ reg'.last.op = "create_session"
          => /\ reg'.last.id \in DOMAIN reg'.sessions
             /\ Occurrences(reg'.order, reg'.last.id) = 1
       /\ (reg' # reg /\ reg'.last.op = "kill")
          => /\ reg'.last.ret = "ok"
             /\ reg'.last.id \notin DOMAIN reg'.sessions
             /\ Occurrences(reg'.order, reg'.last.id) = 0
             /\ \A o \in DOMAIN reg.sessions \ {reg'.last.id} :
                   /\ o \in DOMAIN reg'.sessions
                   /\ reg'.sessions[o] = reg.sessions[o]
                   /\ Occurrences(reg'.order, o) = Occurrences(reg.order, o)
       /\ (/\ reg'.last.op \in {"write", "resize", "set_title", "exec"}
           /\ reg'.last.id \notin DOMAIN reg.sessions)
          => /\ reg'.last.ret # "ok"
             /\ reg'.last.valid => reg'.last.ret = "Session not found"
             /\ reg'.sessions = reg.sessions
             /\ reg'.order = reg.order
      ]_vars

\* A session was created and killed while another lives on, and a later
\* set_title with a title on the killed id was refused.
C34_Witness ==
    /\ reg.made >= 2
    /\ reg.last.op = "set_title"
    /\ reg.last.valid
    /\ reg.last.id \in SessionIds
    /\ reg.last.id <= reg.made
    /\ reg.last.id \notin DOMAIN reg.sessions
    /\ reg.last.ret = "Session not found"
    /\ DOMAIN reg.sessions # {}
    /\ Occurrences(reg.order, reg.last.id) = 0

\* C35: the task list mirrors the plan: after every step that changes the
\* plan and leaves a plan, there is a task list with exactly one task for
\* each step of the plan, with the id of the step, in the order of the steps.
C35_AsStated ==
    [][(/\ store'.st.plan # store.st.plan
        /\ store'.st.plan # None)
          => /\ store'.st.tasks # None
             /\ [i \in 1..Len(store'.st.tasks[1].items) |-> store'.st.tasks[1].items[i].id]
                   = [i \in 1..Len(store'.st.plan[1].steps) |-> store'.st.plan[1].steps[i].id]
      ]_vars

\* C36: stop is sticky: once agent_state is Finished, only the control calls
\* start and user_input take it out of Finished; no step of the run loop
\* replaces Finished by Error, AwaitingUser or Running.
C36_AsStated ==
    [][(/\ state.agent_state = "Finished"
        /\ state'.agent_state # "Finished")
          => event' \in {"start", "user_input"}
      ]_vars

\* C37: no lost wake-up: the system is never at rest with agent_state Running,
\* the pause flag clear and no run loop alive.
C37_AsStated ==
    ~(/\ state.agent_state = "Running"
      /\ ~paused
      /\ LiveLoops = {})

\* C38: the pause flag is set only while the run is Paused.
C38_AsStated == paused => state.agent_state = "Paused"

\* C39: in every reachable state, agent_state Error implies that last_error
\* is set.
C39_ErrorHasLastError ==
    state.agent_state = "Error" => state.last_error # None

\* The run is in Error from a decision error or a failed dispatch, and a
\* control call that leaves the state Error has run since.
C39_Witness ==
    /\ state.agent_state = "Error"
    /\ state.last_error # None
    /\ event \in {"pause", "resume", "continue", "plan_update"}

\* C40: every way out of run_loop clears the running flag: the flag is set
\* only while a loop task is alive, so start is refused with "Kernel already
\* running" only then; a loop that has left its loop ends, with the flag
\* cleared; and a start that finds no loop task succeeds and spawns one.
C40_ExitClearsRunning ==
    /\ [](running => LiveLoops # {})
    /\ [][/\ (Start /\ ret' = "Kernel already running") => LiveLoops # {}
          /\ (Start /\ LiveLoops = {})
                => (ret' = "ok" /\ running' /\ LiveLoops' # {} /\ state'.agent_state = "Running")
          /\ \A l \in LoopIds :
                (loops[l].pc = "exit" /\ loops'[l].pc # "exit")
                   => (loops'[l].pc = "none" /\ ~running')
         ]_vars
    /\ (\E l \in LoopIds : loops[l].pc = "exit") ~> (LiveLoops = {} /\ ~running)

\* A start that found the run Paused succeeded: the loop of that run had left
\* its loop after the pause and had cleared the flag.
C40_Witness ==
    /\ event = "start"
    /\ ret = "ok"
    /\ from = "Paused"
    /\ running
    /\ LiveLoops # {}

====
